---- MODULE Spec2Model ----
(***************************************************************************)
(* Byte-level model of the dnssector DNS wire-format toolkit: the          *)
(* validating parser (dns_sector.rs), the name codec and the packet        *)
(* compressor/decompressor (compress.rs), the record cursors               *)
(* (rr_iterator.rs, question_iterator.rs, response_iterator.rs), the       *)
(* Parsed-Packet mutations (parsed_packet.rs) and the renamer (renamer.rs).*)
(* Buffers are sequences of bytes (0..255); offsets are 0-based as in the  *)
(* source, so byte i of buffer p is p[i + 1].                              *)
(***************************************************************************)
EXTENDS Integers, Sequences, FiniteSets, TLC

VARIABLES input, pp, cur, res, hist

vars == <<input, pp, cur, res, hist>>

\* ------------------------------------------------------------ constants
DNS_HEADER_SIZE == 12
DNS_QUESTION_OFFSET == 12
DNS_MAX_HOSTNAME_LEN == 255
DNS_MAX_HOSTNAME_INDIRECTIONS == 16
DNS_RR_QUESTION_HEADER_SIZE == 4
DNS_RR_HEADER_SIZE == 10
DNS_RR_TYPE_OFFSET == 0
DNS_RR_CLASS_OFFSET == 2
DNS_RR_TTL_OFFSET == 4
DNS_RR_RDLEN_OFFSET == 8
DNS_OPT_RR_MAX_PAYLOAD_OFFSET == 2
DNS_OPT_RR_EXT_RCODE_OFFSET == 4
DNS_OPT_RR_EDNS_VERSION_OFFSET == 5
DNS_OPT_RR_EDNS_EXT_FLAGS_OFFSET == 6
DNS_OPT_RR_RDLEN_OFFSET == 8
DNS_OPT_RR_HEADER_SIZE == 10
DNS_EDNS_RR_RDLEN_OFFSET == 2
DNS_EDNS_RR_HEADER_SIZE == 4
DNS_TID_OFFSET == 0
DNS_FLAGS_OFFSET == 2
DNS_FLAG_QR == 32768
DNS_FLAG_RD == 256
DNS_FLAG_RA == 128
DNS_FLAG_AD == 32
DNS_FLAG_CD == 16
DNS_MAX_UNCOMPRESSED_SIZE == 8192
MAX_SUFFIX_LEN == 127
MAX_SUFFIXES == 32
CLASS_IN == 1
TYPE_A == 1
TYPE_NS == 2
TYPE_CNAME == 5
TYPE_SOA == 6
TYPE_PTR == 12
TYPE_MX == 15
TYPE_TXT == 16
TYPE_AAAA == 28
TYPE_DNAME == 39
TYPE_OPT == 41

\* Option<usize>::None
None == -1

\* Out-of-range read markers: what an unchecked index past the end of a
\* slice produces in the source is a panic; the accessors below return a
\* value no byte (no 16-bit word) can have and the callers turn it into a
\* "panic" result.
OOB == 256
OOB16 == 65536

\* ------------------------------------------------------------ results
Ok(v) == [err |-> "ok", detail |-> "", val |-> v]

Err(kind, detail) == [err |-> kind, detail |-> detail, val |-> 0]

Panic(detail) == [err |-> "panic", detail |-> detail, val |-> 0]

IsOk(r) == r.err = "ok"

\* a loop body that has not returned: val holds the loop's variables
Again(v) == [err |-> "again", detail |-> "", val |-> v]

Looping(r) == r.err = "again"

\* ------------------------------------------------------------ bytes
Rd(p, i) == IF i >= 0 /\ i < Len(p) THEN p[i + 1] ELSE OOB

Rd16(p, i) == IF i >= 0 /\ i + 1 < Len(p) THEN p[i + 1] * 256 + p[i + 2] ELSE OOB16

\* p[a..b] of the source: bytes a, ..., b-1
Slice(p, a, b) == SubSeq(p, a + 1, b)

U16(v) == <<(v \div 256) % 256, v % 256>>

\* BigEndian::write_u16(&mut p[i..], v)
Write16(p, i, v) == [k \in 1..Len(p) |-> IF k = i + 1 THEN (v \div 256) % 256
                                         ELSE IF k = i + 2 THEN v % 256 ELSE p[k]]

IsPointer(b) == b >= 192 /\ b <= 255

\* ------------------------------------------------------------ name checks
\* One pass of the loop of check_compressed_name: the result it returns
\* with, or the values the next pass starts from.
ccn_body(packet, offset, name_len, barrier_offset, lowest_offset, final_offset, refs_allowed) ==
    LET packet_len == Len(packet) IN
    IF offset >= barrier_offset
    THEN IF offset >= packet_len
         THEN Err("InvalidName", "Truncated name")
         ELSE Err("InvalidName", "Cycle")
    ELSE
    LET len == Rd(packet, offset) IN
    IF len = OOB THEN Panic("check_compressed_name: packet[offset]")
    ELSE IF IsPointer(len)
    THEN IF refs_allowed <= 0 THEN Err("InvalidName", "Too many indirections")
         ELSE IF 2 > packet_len - offset THEN Err("InvalidName", "Invalid internal offset")
         ELSE LET lo == Rd(packet, offset + 1)
                  ref_offset == (len % 64) * 256 + lo
              IN IF lo = OOB THEN Panic("check_compressed_name: packet[offset + 1]")
                 ELSE IF ref_offset = offset \/ ref_offset >= lowest_offset
                 THEN Err("InvalidName", "Forward/self reference")
                 ELSE Again([offset |-> ref_offset, name_len |-> name_len,
                             barrier_offset |-> lowest_offset, lowest_offset |-> ref_offset,
                             final_offset |-> IF final_offset = None THEN offset + 2
                                              ELSE final_offset,
                             refs_allowed |-> refs_allowed - 1])
    ELSE IF len > 63 THEN Err("InvalidName", "Label length too long")
    ELSE IF len >= packet_len - offset THEN Err("InvalidName", "Out-of-bounds name")
    ELSE IF name_len + len + 1 > DNS_MAX_HOSTNAME_LEN THEN Err("InvalidName", "Name too long")
    ELSE IF len = 0
    THEN Ok(IF final_offset = None THEN offset + 1 ELSE final_offset)
    ELSE Again([offset |-> offset + len + 1, name_len |-> name_len + len + 1,
                barrier_offset |-> barrier_offset, lowest_offset |-> lowest_offset,
                final_offset |-> final_offset, refs_allowed |-> refs_allowed])

RECURSIVE ccn_loop(_, _, _, _, _, _, _)
ccn_loop(packet, offset, name_len, barrier_offset, lowest_offset, final_offset, refs_allowed) ==
    LET r == ccn_body(packet, offset, name_len, barrier_offset, lowest_offset, final_offset,
                      refs_allowed)
    IN IF ~Looping(r) THEN r
       ELSE ccn_loop(packet, r.val.offset, r.val.name_len, r.val.barrier_offset,
                     r.val.lowest_offset, r.val.final_offset, r.val.refs_allowed)

\* variants: one more indirection allowed; the length counted from -1
check_compressed_name_refs(packet, offset) ==
    IF offset >= Len(packet) THEN Err("InternalError", "Offset outside packet boundaries")
    ELSE ccn_loop(packet, offset, 0, Len(packet), offset, None,
                  DNS_MAX_HOSTNAME_INDIRECTIONS + 1)

check_compressed_name_len(packet, offset) ==
    IF offset >= Len(packet) THEN Err("InternalError", "Offset outside packet boundaries")
    ELSE ccn_loop(packet, offset, -1, Len(packet), offset, None, DNS_MAX_HOSTNAME_INDIRECTIONS)

check_compressed_name(packet, offset) ==
    IF offset >= Len(packet) THEN Err("InternalError", "Offset outside packet boundaries")
    ELSE IF 1 > Len(packet) - offset THEN Err("InvalidName", "Empty name")
    ELSE ccn_loop(packet, offset, 0, Len(packet), offset, None, DNS_MAX_HOSTNAME_INDIRECTIONS)

RECURSIVE cun_loop(_, _, _)
cun_loop(packet, offset, name_len) ==
    LET packet_len == Len(packet) IN
    IF offset >= packet_len THEN Err("InvalidName", "Truncated name")
    ELSE
    LET len == Rd(packet, offset) IN
    IF IsPointer(len) THEN Err("InvalidName", "Unexpected compression")
    ELSE IF len > 63 THEN Err("InvalidName", "Label length too long")
    ELSE IF len >= packet_len - offset THEN Err("InvalidName", "Out-of-bounds name")
    ELSE IF name_len + len + 1 > DNS_MAX_HOSTNAME_LEN THEN Err("InvalidName", "Name too long")
    ELSE IF len = 0 THEN Ok(offset + 1)
    ELSE cun_loop(packet, offset + len + 1, name_len + len + 1)

check_uncompressed_name(packet, offset) ==
    IF offset >= Len(packet) THEN Err("InternalError", "Offset outside packet boundaries")
    ELSE IF 1 > Len(packet) - offset THEN Err("InvalidName", "Empty name")
    ELSE cun_loop(packet, offset, 0)

\* ------------------------------------------------------------ DNSSector
\* The parser's cursor and EDNS fields (the packet itself is passed along).
NewSector == [offset |-> 0, edns_start |-> None, edns_end |-> None, edns_count |-> 0,
              ext_rcode |-> None, edns_version |-> None, ext_flags |-> None,
              max_payload |-> 512]

is_response(packet) == (Rd16(packet, DNS_FLAGS_OFFSET) \div 32768) % 2 = 1

qdcount(packet) == Rd16(packet, 4)

ancount(packet) == Rd16(packet, 6)

nscount(packet) == Rd16(packet, 8)

arcount(packet) == Rd16(packet, 10)

remaining_len(packet, s) == Len(packet) - s.offset

\* variant: the length is never checked
ensure_remaining_len_unchecked(packet, s, len) == Ok(0)

ensure_remaining_len(packet, s, len) ==
    IF remaining_len(packet, s) < len THEN Err("PacketTooSmall", "") ELSE Ok(0)

set_offset(packet, s, offset) ==
    IF offset >= Len(packet)
    THEN Err("InternalError", "Setting offset past the end of the packet")
    ELSE Ok([s EXCEPT !.offset = offset])

increment_offset(packet, s, n) ==
    LET e == ensure_remaining_len(packet, s, n) IN
    IF ~IsOk(e) THEN e ELSE Ok([s EXCEPT !.offset = s.offset + n])

u8_load(packet, s, rr_offset) ==
    LET e == ensure_remaining_len(packet, s, rr_offset + 1)
        b == Rd(packet, s.offset + rr_offset)
    IN IF ~IsOk(e) THEN e
       ELSE IF b = OOB THEN Panic("u8_load: index out of bounds") ELSE Ok(b)

be16_load(packet, s, rr_offset) ==
    LET e == ensure_remaining_len(packet, s, rr_offset + 2)
        w == Rd16(packet, s.offset + rr_offset)
    IN IF ~IsOk(e) THEN e
       ELSE IF w = OOB16 THEN Panic("be16_load: index out of bounds") ELSE Ok(w)

skip_name_checked(packet, s) ==
    LET checked(r) == IF ~IsOk(r) THEN r ELSE set_offset(packet, s, r.val)
    IN checked(check_compressed_name(packet, s.offset))

ensure_in_class(packet, s) ==
    LET loaded(c) == IF ~IsOk(c) THEN c
                     ELSE IF c.val # CLASS_IN THEN Err("UnsupportedClass", "") ELSE Ok(0)
    IN loaded(be16_load(packet, s, DNS_RR_CLASS_OFFSET))

parse_question(packet, s) ==
    LET in_class(n, c) ==
            IF ~IsOk(c) THEN c
            ELSE increment_offset(packet, n.val, DNS_RR_QUESTION_HEADER_SIZE)
        skipped(n) == IF ~IsOk(n) THEN n ELSE in_class(n, ensure_in_class(packet, n.val))
    IN skipped(skip_name_checked(packet, s))

edns_remaining_len(s) == IF s.edns_end = None THEN 0 ELSE s.edns_end - s.offset

edns_be16_load(packet, s, rr_offset) ==
    LET w == Rd16(packet, s.offset + rr_offset) IN
    IF edns_remaining_len(s) < rr_offset + 2 THEN Err("PacketTooSmall", "")
    ELSE IF w = OOB16 THEN Panic("edns_be16_load: index out of bounds") ELSE Ok(w)

edns_skip_rr(packet, s) ==
    LET loaded(l) ==
            IF ~IsOk(l) THEN l
            ELSE IF edns_remaining_len(s) < DNS_EDNS_RR_HEADER_SIZE + l.val
            THEN Err("PacketTooSmall", "")
            ELSE Ok([s EXCEPT !.offset = s.offset + DNS_EDNS_RR_HEADER_SIZE + l.val])
    IN loaded(edns_be16_load(packet, s, DNS_EDNS_RR_RDLEN_OFFSET))

RECURSIVE edns_loop(_, _)
edns_loop(packet, s) ==
    LET skipped(r) ==
            IF ~IsOk(r) THEN r
            ELSE edns_loop(packet,
                           [r.val EXCEPT !.edns_count = (r.val.edns_count + 1) % 65536])
    IN IF edns_remaining_len(s) > 0 THEN skipped(edns_skip_rr(packet, s)) ELSE Ok(s)

\* the fields of an OPT record, read in the order of the source
parse_opt_fields(packet, s, rc, ve, mp, fl, rl) ==
    IF ~IsOk(rc) THEN rc
    ELSE IF ~IsOk(ve) THEN ve
    ELSE IF ~IsOk(mp) THEN mp
    ELSE IF ~IsOk(fl) THEN fl
    ELSE IF ~IsOk(rl) THEN rl
    ELSE LET ensured(i, e) ==
                 IF ~IsOk(e) THEN e
                 ELSE edns_loop(packet, [i.val EXCEPT !.ext_rcode = rc.val,
                                                      !.edns_version = ve.val,
                                                      !.max_payload = mp.val,
                                                      !.ext_flags = fl.val,
                                                      !.edns_start = i.val.offset,
                                                      !.edns_end = i.val.offset + rl.val,
                                                      !.edns_count = 0])
             incremented(i) ==
                 IF ~IsOk(i) THEN i
                 ELSE ensured(i, ensure_remaining_len(packet, i.val, rl.val))
         IN incremented(increment_offset(packet, s, DNS_OPT_RR_HEADER_SIZE))

parse_opt(packet, s) ==
    IF s.edns_end # None THEN Err("InvalidPacket", "Only one OPT record is allowed")
    ELSE parse_opt_fields(packet, s,
                          u8_load(packet, s, DNS_OPT_RR_EXT_RCODE_OFFSET),
                          u8_load(packet, s, DNS_OPT_RR_EDNS_VERSION_OFFSET),
                          be16_load(packet, s, DNS_OPT_RR_MAX_PAYLOAD_OFFSET),
                          be16_load(packet, s, DNS_OPT_RR_EDNS_EXT_FLAGS_OFFSET),
                          be16_load(packet, s, DNS_OPT_RR_RDLEN_OFFSET))

\* rdata made of one compressed name preceded by `skip` fixed bytes (NS,
\* CNAME, PTR: 0; MX: 2)
parse_rr_name_rdata(packet, s, rr_rdlen, skip, msg) ==
    LET checked(i, f) ==
            IF ~IsOk(f) THEN f
            ELSE IF f.val < i.val.offset THEN Panic("attempt to subtract with overflow")
            ELSE IF f.val - i.val.offset # rr_rdlen THEN Err("InvalidPacket", msg)
            ELSE increment_offset(packet, i.val, rr_rdlen)
        incremented(i) ==
            IF ~IsOk(i) THEN i
            ELSE checked(i, check_compressed_name(packet, i.val.offset + skip))
    IN IF rr_rdlen <= skip THEN Err("PacketTooSmall", "")
       ELSE incremented(increment_offset(packet, s, DNS_RR_HEADER_SIZE))

parse_rr_soa(packet, s, rr_rdlen) ==
    LET checked2(i, f2) ==
            IF ~IsOk(f2) THEN f2
            ELSE IF f2.val < i.val.offset THEN Panic("attempt to subtract with overflow")
            ELSE IF f2.val - i.val.offset # rr_rdlen - 20
            THEN Err("InvalidPacket", "Unexpected data after name in SOA rdata")
            ELSE increment_offset(packet, i.val, rr_rdlen)
        checked1(i, f1) ==
            IF ~IsOk(f1) THEN f1 ELSE checked2(i, check_compressed_name(packet, f1.val))
        incremented(i) ==
            IF ~IsOk(i) THEN i ELSE checked1(i, check_compressed_name(packet, i.val.offset))
    IN IF rr_rdlen <= 1 + 20 THEN Err("PacketTooSmall", "")
       ELSE incremented(increment_offset(packet, s, DNS_RR_HEADER_SIZE))

parse_rr_dname(packet, s, rr_rdlen) ==
    LET checked(i, f) ==
            IF ~IsOk(f) THEN f
            ELSE IF f.val - i.val.offset # rr_rdlen
            THEN Err("InvalidPacket", "Unexpected data after name in DNAME rdata")
            ELSE increment_offset(packet, i.val, rr_rdlen)
        incremented(i) ==
            IF ~IsOk(i) THEN i
            ELSE checked(i, check_uncompressed_name(packet, i.val.offset))
    IN IF rr_rdlen <= 0 THEN Err("PacketTooSmall", "")
       ELSE incremented(increment_offset(packet, s, DNS_RR_HEADER_SIZE))

\* the record whose name ends at n, of type t and rdata length l
parse_rr_typed(packet, s, section, n, t, l) ==
    IF ~IsOk(t) THEN t
    ELSE IF ~IsOk(l) THEN l
    ELSE IF t.val = TYPE_OPT
    THEN IF section # "Additional"
         THEN Err("InvalidPacket", "OPT RRs must be in the additional section")
         ELSE IF n.offset - s.offset # 1
         THEN Err("InvalidPacket", "OPT RRs must have the root domain as the domain name")
         ELSE parse_opt(packet, n)
    ELSE IF t.val \in {TYPE_NS, TYPE_CNAME, TYPE_PTR, TYPE_MX}
    THEN parse_rr_name_rdata(packet, n, l.val, IF t.val = TYPE_MX THEN 2 ELSE 0,
                             IF t.val = TYPE_MX
                             THEN "Unexpected data after name in MX rdata"
                             ELSE "Unexpected data after name in rdata")
    ELSE IF t.val = TYPE_SOA THEN parse_rr_soa(packet, n, l.val)
    ELSE IF t.val = TYPE_DNAME THEN parse_rr_dname(packet, n, l.val)
    ELSE IF t.val = TYPE_A /\ l.val # 4
    THEN Err("InvalidPacket", "A record doesn't include a 4 bytes IP address")
    ELSE IF t.val = TYPE_AAAA /\ l.val # 16
    THEN Err("InvalidPacket", "AAAA record doesn't include a 16 bytes IP address")
    ELSE increment_offset(packet, n, DNS_RR_HEADER_SIZE + l.val)

\* n is what skip_name returned for the owner name
parse_rr_named(packet, s, section, n) ==
    IF ~IsOk(n) THEN n
    ELSE parse_rr_typed(packet, s, section, n.val,
                        be16_load(packet, n.val, DNS_RR_TYPE_OFFSET),
                        be16_load(packet, n.val, DNS_RR_RDLEN_OFFSET))

parse_rr(packet, s, section) ==
    parse_rr_named(packet, s, section, skip_name_checked(packet, s))

\* for _ in 0..count { self.parse_rr(section)?; }
RECURSIVE parse_rrs(_, _, _, _)
parse_rrs(packet, s, section, count) ==
    LET parsed(r) == IF ~IsOk(r) THEN r ELSE parse_rrs(packet, r.val, section, count - 1)
    IN IF count = 0 THEN Ok(s) ELSE parsed(parse_rr(packet, s, section))

NewParsedPacket(packet, oq, oan, ons, oar, s) ==
    [packet |-> packet, offset_question |-> oq, offset_answers |-> oan,
     offset_nameservers |-> ons, offset_additional |-> oar,
     offset_edns |-> s.edns_start, ext_rcode |-> s.ext_rcode,
     edns_version |-> s.edns_version, ext_flags |-> s.ext_flags,
     edns_count |-> s.edns_count, maybe_compressed |-> TRUE,
     max_payload |-> s.max_payload, cached |-> <<>>]

\* DNSSector::parse, a section at a time: q, an, ns and ar are the results
\* of parsing the question and the records of the three sections, whose
\* val is the DNSSector right after them
parse_done(packet, q, an, ns, ar) ==
    IF ~IsOk(ar) THEN ar
    ELSE IF remaining_len(packet, ar.val) > 0
    THEN Err("InvalidPacket", "Extra data found after the last record")
    ELSE Ok(NewParsedPacket(packet,
                            DNS_QUESTION_OFFSET,
                            IF ancount(packet) > 0 THEN q.val.offset ELSE None,
                            IF nscount(packet) > 0 THEN an.val.offset ELSE None,
                            IF arcount(packet) > 0 THEN ns.val.offset ELSE None,
                            ar.val))

parse_additional(packet, q, an, ns) ==
    IF ~IsOk(ns) THEN ns
    ELSE parse_done(packet, q, an, ns,
                    parse_rrs(packet, ns.val, "Additional", arcount(packet)))

\* variant: name servers are parsed whatever the QR bit is
parse_nameservers_any(packet, q, an) ==
    IF ~IsOk(an) THEN an
    ELSE parse_additional(packet, q, an,
                          parse_rrs(packet, an.val, "NameServers", nscount(packet)))

parse_nameservers(packet, q, an) ==
    IF ~IsOk(an) THEN an
    ELSE IF ~is_response(packet) /\ nscount(packet) > 0
    THEN Err("InvalidPacket", "A question shouldn't also contain name servers")
    ELSE parse_additional(packet, q, an,
                          parse_rrs(packet, an.val, "NameServers", nscount(packet)))

parse_answers(packet, q) ==
    IF ~IsOk(q) THEN q
    ELSE IF ~is_response(packet) /\ ancount(packet) > 0
    THEN Err("InvalidPacket", "A question shouldn't also contain answers")
    ELSE parse_nameservers(packet, q, parse_rrs(packet, q.val, "Answer", ancount(packet)))

\* s0 is what set_offset(DNS_QUESTION_OFFSET) returned
parse_sections(packet, s0) ==
    IF ~IsOk(s0) THEN s0 ELSE parse_answers(packet, parse_question(packet, s0.val))

\* DNSSector::parse: val is the ParsedPacket on success
parse(packet) ==
    IF Len(packet) < DNS_HEADER_SIZE THEN Err("PacketTooSmall", "")
    ELSE IF qdcount(packet) = 0
    THEN Err("InvalidPacket", "A DNS packet should contain a question")
    ELSE IF qdcount(packet) > 1
    THEN Err("InvalidPacket", "A DNS packet cannot contain more than one question")
    ELSE parse_sections(packet, set_offset(packet, NewSector, DNS_QUESTION_OFFSET))

Accepts(packet) == IsOk(parse(packet))

\* ------------------------------------------------------------ name codec
\* Compress::copy_uncompressed_name on a trusted buffer: val is the
\* uncompressed name, its length and the offset right after the (possibly
\* compressed) name; a failed slice index or assertion is a panic. A walk
\* that has copied more bytes than the packet holds has passed some offset
\* twice and never ends: name grows until the allocator aborts the process.
cpun_body(packet, offset, name, final_offset) ==
    LET len == Rd(packet, offset) IN
    IF len = OOB THEN Panic("copy_uncompressed_name: packet[offset]")
    ELSE IF IsPointer(len)
    THEN LET w == Rd16(packet, offset)
             new_offset == w % 16384
         IN IF w = OOB16 THEN Panic("copy_uncompressed_name: read_u16")
            ELSE IF ~(new_offset < offset) THEN Panic("assertion failed: new_offset < offset")
            ELSE Again([offset |-> new_offset, name |-> name,
                        final_offset |-> IF final_offset = None THEN offset + 2
                                         ELSE final_offset])
    ELSE IF offset + 1 + len > Len(packet) THEN Panic("copy_uncompressed_name: label slice")
    ELSE IF Len(name) > Len(packet) THEN Panic("copy_uncompressed_name: memory allocation failed")
    ELSE IF len = 0
    THEN Ok([name |-> name \o <<0>>, name_len |-> Len(name) + 1,
             final_offset |-> IF final_offset = None THEN offset + 1 ELSE final_offset])
    ELSE Again([offset |-> offset + 1 + len,
                name |-> name \o Slice(packet, offset, offset + 1 + len),
                final_offset |-> final_offset])

RECURSIVE cpun_loop(_, _, _, _)
cpun_loop(packet, offset, name, final_offset) ==
    LET r == cpun_body(packet, offset, name, final_offset)
    IN IF ~Looping(r) THEN r
       ELSE cpun_loop(packet, r.val.offset, r.val.name, r.val.final_offset)

copy_uncompressed_name(packet, offset) == cpun_loop(packet, offset, <<>>, None)

\* Compress::raw_name_len: None stands for an index past the slice (panic)
RECURSIVE rnl_loop(_, _)
rnl_loop(name, i) ==
    IF Rd(name, i) = OOB THEN None
    ELSE IF name[i + 1] = 0 THEN i + 1
    ELSE rnl_loop(name, i + name[i + 1] + 1)

raw_name_len(name) == rnl_loop(name, 0)

\* ------------------------------------------------------------ cursors
NewIterator(section) == [section |-> section, offset |-> None, offset_next |-> 0,
                         name_end |-> 0, rrs_left |-> 0]

Some(it) == Ok([some |-> TRUE, it |-> it])

Nothing == Ok([some |-> FALSE, it |-> NewIterator("none")])

\* RRIterator::skip_name: stops after the first pointer
RECURSIVE skip_name(_, _)
skip_name(packet, offset) ==
    LET len == Rd(packet, offset) IN
    IF len = OOB THEN Panic("skip_name: packet[offset]")
    ELSE IF IsPointer(len)
    THEN IF ~(Len(packet) - offset > 2) THEN Panic("assertion failed: packet_len - offset > 2")
         ELSE Ok(offset + 2)
    ELSE IF ~(len < Len(packet) - offset - 1)
    THEN Panic("assertion failed: label_len < packet_len - offset - 1")
    ELSE IF len = 0 THEN Ok(offset + 1)
    ELSE skip_name(packet, offset + len + 1)

skip_rdata(packet, offset) ==
    LET l == Rd16(packet, offset + DNS_RR_RDLEN_OFFSET) IN
    IF l = OOB16 THEN Panic("skip_rdata: read_u16") ELSE Ok(offset + DNS_RR_HEADER_SIZE + l)

\* the record a cursor is moved onto: name_end and offset_next recomputed
position_rr(packet, it, offset) ==
    LET skipped(ne, on) ==
            IF ~IsOk(on) THEN on
            ELSE Some([it EXCEPT !.offset = offset, !.name_end = ne.val,
                                 !.offset_next = on.val])
        named(ne) == IF ~IsOk(ne) THEN ne ELSE skipped(ne, skip_rdata(packet, ne.val))
    IN named(skip_name(packet, offset))

section_count(p, section) ==
    CASE section = "Question" -> qdcount(p.packet)
      [] section = "Answer" -> ancount(p.packet)
      [] section = "NameServers" -> nscount(p.packet)
      [] section = "Additional" -> arcount(p.packet)
      [] OTHER -> p.edns_count

section_offset(p, section) ==
    CASE section = "Question" -> p.offset_question
      [] section = "Answer" -> p.offset_answers
      [] section = "NameServers" -> p.offset_nameservers
      [] section = "Additional" -> p.offset_additional
      [] OTHER -> p.offset_edns

\* QuestionIterator::next once rrs_left and offset_next are set
question_next_rr(p, it) ==
    LET named(ne) ==
            IF ~IsOk(ne) THEN ne
            ELSE Some([it EXCEPT !.rrs_left = it.rrs_left - 1, !.offset = it.offset_next,
                                 !.name_end = ne.val,
                                 !.offset_next = ne.val + DNS_RR_QUESTION_HEADER_SIZE])
    IN IF it.rrs_left = 0 THEN Nothing ELSE named(skip_name(p.packet, it.offset_next))

\* QuestionIterator::next
question_next(p, it) ==
    IF it.offset = None /\ qdcount(p.packet) = 0 THEN Nothing
    ELSE IF it.offset = None /\ p.offset_question = None
    THEN Panic("called Option::unwrap() on a None value")
    ELSE question_next_rr(p, IF it.offset # None THEN it
                             ELSE [it EXCEPT !.rrs_left = qdcount(p.packet),
                                             !.offset_next = p.offset_question])

\* ResponseIterator::next_including_opt once rrs_left and offset_next are set
next_rr_including_opt(p, it) ==
    IF it.rrs_left = 0 THEN Nothing
    ELSE position_rr(p.packet, [it EXCEPT !.rrs_left = it.rrs_left - 1], it.offset_next)

\* ResponseIterator::next_including_opt
next_including_opt(p, it) ==
    IF it.offset = None /\ section_count(p, it.section) = 0 THEN Nothing
    ELSE IF it.offset = None /\ section_offset(p, it.section) = None
    THEN Panic("called Option::unwrap() on a None value")
    ELSE next_rr_including_opt(p, IF it.offset # None THEN it
                                  ELSE [it EXCEPT !.rrs_left = section_count(p, it.section),
                                                  !.offset_next =
                                                      section_offset(p, it.section)])

\* TypedIterable::rr_type / rr_class, RdataIterable::rr_rdlen of the cursor
rr_type(p, it) == Rd16(p.packet, it.name_end + DNS_RR_TYPE_OFFSET)

rr_class(p, it) == Rd16(p.packet, it.name_end + DNS_RR_CLASS_OFFSET)

rr_rdlen(p, it) == Rd16(p.packet, it.name_end + DNS_RR_RDLEN_OFFSET)

\* ResponseIterator::maybe_skip_opt_section (rrs_left is left as it is);
\* r is what next_including_opt returned
maybe_skip_opt_section(p, r) ==
    IF ~IsOk(r) \/ ~r.val.some THEN r
    ELSE IF rr_type(p, r.val.it) = OOB16 THEN Panic("rr_type: read_u16")
    ELSE IF rr_type(p, r.val.it) = TYPE_OPT
    THEN IF r.val.it.rrs_left = 0 THEN Nothing
         ELSE position_rr(p.packet, r.val.it, r.val.it.offset_next)
    ELSE r

\* ResponseIterator::next
response_next(p, it) == maybe_skip_opt_section(p, next_including_opt(p, it))

\* RRIterator::edns_rr_rdlen and edns_skip_rr
edns_rr_rdlen(packet, offset) == Rd16(packet, offset + DNS_EDNS_RR_RDLEN_OFFSET)

iterator_edns_skip_rr(packet, offset) ==
    IF edns_rr_rdlen(packet, offset) = OOB16 THEN Panic("edns_rr_rdlen: read_u16")
    ELSE Ok(offset + DNS_EDNS_RR_HEADER_SIZE + edns_rr_rdlen(packet, offset))

\* EdnsIterator::next once rrs_left and offset_next are set
edns_next_rr(p, it) ==
    LET skipped(on) ==
            IF ~IsOk(on) THEN on
            ELSE Some([it EXCEPT !.rrs_left = it.rrs_left - 1, !.offset = it.offset_next,
                                 !.name_end = it.offset_next, !.offset_next = on.val])
    IN IF it.rrs_left = 0 THEN Nothing ELSE skipped(iterator_edns_skip_rr(p.packet, it.offset_next))

\* EdnsIterator::next
edns_next(p, it) ==
    IF it.offset = None /\ p.edns_count = 0 THEN Nothing
    ELSE IF it.offset = None /\ p.offset_edns = None
    THEN Panic("called Option::unwrap() on a None value")
    ELSE edns_next_rr(p, IF it.offset # None THEN it
                         ELSE [it EXCEPT !.rrs_left = p.edns_count,
                                         !.offset_next = p.offset_edns])

\* the options into_iter_edns and next() after next() yield: for each the
\* bytes from its offset to its offset_next, r being what the last next()
\* returned
RECURSIVE edns_options(_, _, _)
edns_options(p, r, options) ==
    IF ~IsOk(r) THEN r
    ELSE IF ~r.val.some THEN Ok(options)
    ELSE edns_options(p, edns_next(p, r.val.it),
                      Append(options, Slice(p.packet, r.val.it.offset, r.val.it.offset_next)))

iter_edns(p) == edns_options(p, edns_next(p, NewIterator("Edns")), <<>>)

\* DNSIterable::next by cursor kind; kind "incl" is next_including_opt
cursor_next(p, it, kind) ==
    IF it.section = "Question" THEN question_next(p, it)
    ELSE IF kind = "incl" THEN next_including_opt(p, it)
    ELSE response_next(p, it)

\* ------------------------------------------------------------ uncompress
\* a slice packet[a..b] of a Vec panics unless a <= b <= len
InRange(p, a, b) == 0 <= a /\ a <= b /\ b <= Len(p)

\* TypedIterable::copy_raw_name: the uncompressed owner name of the record
copy_raw_name(p, it) ==
    IF it.name_end <= it.offset THEN Ok([name |-> <<>>, name_len |-> 0, final_offset |-> it.offset])
    ELSE copy_uncompressed_name(p.packet, it.offset)

\* variant: the rdata of every record is copied as it is
uncompress_rdata_verbatim(uncompressed, packet, name_end, type, rdlen) ==
    LET size == IF type = None THEN DNS_RR_QUESTION_HEADER_SIZE
                ELSE DNS_RR_HEADER_SIZE + Rd16(packet, name_end + DNS_RR_RDLEN_OFFSET)
    IN IF ~InRange(packet, name_end, name_end + size) THEN Panic("uncompress_rdata: rdata")
       ELSE Ok(uncompressed \o Slice(packet, name_end, name_end + size))

\* Compress::uncompress_rdata: what follows the owner name, appended to
\* uncompressed; rr_type None is a question
uncompress_rdata(uncompressed, packet, name_end, type, rdlen) ==
    LET offset == Len(uncompressed)
        header == uncompressed \o Slice(packet, name_end, name_end + DNS_RR_HEADER_SIZE)
        one_name(u) ==
            IF ~IsOk(u) THEN u
            ELSE Ok(Write16(header \o u.val.name, offset + DNS_RR_RDLEN_OFFSET,
                            u.val.name_len % 65536))
        mx_name(u) ==
            IF ~IsOk(u) THEN u
            ELSE Ok(Write16(uncompressed
                                \o Slice(packet, name_end, name_end + DNS_RR_HEADER_SIZE + 2)
                                \o u.val.name,
                            offset + DNS_RR_RDLEN_OFFSET, (2 + u.val.name_len) % 65536))
        soa_names(u1, u2) ==
            IF ~IsOk(u2) THEN u2
            ELSE IF ~InRange(packet, u2.val.final_offset, u2.val.final_offset + 20)
            THEN Panic("uncompress_rdata: SOA metadata")
            ELSE Ok(Write16(header \o u1.val.name \o u2.val.name
                                \o Slice(packet, u2.val.final_offset,
                                         u2.val.final_offset + 20),
                            offset + DNS_RR_RDLEN_OFFSET,
                            (u1.val.name_len + u2.val.name_len + 20) % 65536))
        soa_name(u1) ==
            IF ~IsOk(u1) THEN u1
            ELSE soa_names(u1, copy_uncompressed_name(packet, u1.val.final_offset))
    IN
    IF type = None
    THEN IF ~InRange(packet, name_end, name_end + DNS_RR_QUESTION_HEADER_SIZE)
         THEN Panic("uncompress_rdata: rdata[..4]")
         ELSE Ok(uncompressed \o Slice(packet, name_end, name_end + DNS_RR_QUESTION_HEADER_SIZE))
    ELSE IF type \in {TYPE_NS, TYPE_CNAME, TYPE_PTR}
    THEN IF ~InRange(packet, name_end, name_end + DNS_RR_HEADER_SIZE)
         THEN Panic("uncompress_rdata: rdata[..10]")
         ELSE one_name(copy_uncompressed_name(packet, name_end + DNS_RR_HEADER_SIZE))
    ELSE IF type = TYPE_MX
    THEN IF ~InRange(packet, name_end, name_end + DNS_RR_HEADER_SIZE + 2)
         THEN Panic("uncompress_rdata: rdata[..12]")
         ELSE mx_name(copy_uncompressed_name(packet, name_end + DNS_RR_HEADER_SIZE + 2))
    ELSE IF type = TYPE_SOA
    THEN IF ~InRange(packet, name_end, name_end + DNS_RR_HEADER_SIZE)
         THEN Panic("uncompress_rdata: rdata[..10]")
         ELSE soa_name(copy_uncompressed_name(packet, name_end + DNS_RR_HEADER_SIZE))
    ELSE IF ~InRange(packet, name_end, name_end + DNS_RR_HEADER_SIZE + rdlen)
    THEN Panic("uncompress_rdata: rdata[..10 + rdlen]")
    ELSE Ok(uncompressed \o Slice(packet, name_end, name_end + DNS_RR_HEADER_SIZE + rdlen))

\* one `while let Some(item) = it` loop of uncompress_with_previous_offset;
\* next is the result of the iterator step that yields the item
RECURSIVE uncompress_section(_, _, _, _, _, _)

\* the rest of the loop body once the record is copied: rd is what
\* uncompress_rdata returned
uncompress_item_next(p, item, rd, uncompressed, new_offset, ref_offset, kind) ==
    IF ~IsOk(rd) THEN rd
    ELSE uncompress_section(p, cursor_next(p, item, kind), rd.val,
                            IF ref_offset = item.offset THEN Len(uncompressed)
                            ELSE new_offset,
                            ref_offset, kind)

\* the loop body: name is what copy_raw_name returned for the item
uncompress_item(p, item, name, uncompressed, new_offset, ref_offset, kind) ==
    IF ~IsOk(name) THEN name
    ELSE IF item.section # "Question"
            /\ (rr_type(p, item) = OOB16 \/ rr_rdlen(p, item) = OOB16)
    THEN Panic("rr_type / rr_rdlen: read_u16")
    ELSE uncompress_item_next(
             p, item,
             uncompress_rdata(uncompressed \o name.val.name, p.packet, item.name_end,
                              IF item.section = "Question" THEN None ELSE rr_type(p, item),
                              IF item.section = "Question" THEN None ELSE rr_rdlen(p, item)),
             uncompressed, new_offset, ref_offset, kind)

uncompress_section(p, next, uncompressed, new_offset, ref_offset, kind) ==
    IF ~IsOk(next) THEN next
    ELSE IF ~next.val.some THEN Ok([out |-> uncompressed, new_offset |-> new_offset])
    ELSE uncompress_item(p, next.val.it, copy_raw_name(p, next.val.it),
                         uncompressed, new_offset, ref_offset, kind)

\* the records of one section appended to what r holds so far
uncompress_records(p, r, section, kind, ref_offset) ==
    IF ~IsOk(r) THEN r
    ELSE uncompress_section(p, cursor_next(p, NewIterator(section), kind),
                            r.val.out, r.val.new_offset, ref_offset, kind)

\* the end of uncompress_with_previous_offset: ar is what the four loops
\* returned
uncompress_done(packet, ar, ref_offset) ==
    IF ~IsOk(ar) THEN ar
    ELSE IF ref_offset = Len(packet)
    THEN Ok([out |-> ar.val.out, new_offset |-> Len(ar.val.out)])
    ELSE IF ar.val.new_offset = None
    THEN Panic("Previous offset not found at a record boundary")
    ELSE ar

\* the four loops: parsed is what parse returned for the packet
uncompress_sections(packet, parsed, ref_offset) ==
    IF ~IsOk(parsed) THEN parsed
    ELSE uncompress_done(packet,
             uncompress_records(parsed.val,
             uncompress_records(parsed.val,
             uncompress_records(parsed.val,
             uncompress_records(parsed.val,
                 Ok([out |-> Slice(packet, 0, DNS_HEADER_SIZE), new_offset |-> None]),
                 "Question", "next", ref_offset),
                 "Answer", "next", ref_offset),
                 "NameServers", "next", ref_offset),
                 "Additional", "incl", ref_offset),
             ref_offset)

\* Compress::uncompress_with_previous_offset
uncompress_with_previous_offset(packet, ref_offset) ==
    IF Len(packet) < DNS_HEADER_SIZE THEN Err("PacketTooSmall", "")
    ELSE uncompress_sections(packet, parse(packet), ref_offset)

\* u is what uncompress_with_previous_offset returned
uncompressed_packet(u) == IF ~IsOk(u) THEN u ELSE Ok(u.val.out)

\* Compress::uncompress
uncompress(packet) ==
    uncompressed_packet(uncompress_with_previous_offset(packet, DNS_HEADER_SIZE))

\* ------------------------------------------------------------ compress
\* SuffixDict: suffixes holds the count entries in use, index is the slot
\* the next new entry goes to (0-based)
NewSuffixDict == [count |-> 0, index |-> 0, suffixes |-> <<>>]

to_ascii_lowercase(c) == IF c >= 65 /\ c <= 90 THEN c + 32 ELSE c

\* SuffixDict::raw_names_eq_ignore_case: the loop over the zipped bytes
\* returns true at the terminator of name1 when every byte up to it matched,
\* and false when a byte differs or the shorter slice ends first
raw_names_eq_ignore_case(name1, name2) ==
    LET zipped == IF Len(name1) < Len(name2) THEN Len(name1) ELSE Len(name2)
        ended == rnl_loop(SubSeq(name1, 1, zipped), 0)
    IN /\ ended # None
       /\ \A i \in 1..ended : to_ascii_lowercase(name1[i]) = to_ascii_lowercase(name2[i])

\* the first entry in use that the suffix matches, 0 when there is none
dict_find(dict, suffix) ==
    LET hits == { i \in 1..dict.count :
                    /\ dict.suffixes[i].len <= Len(suffix)
                    /\ raw_names_eq_ignore_case(suffix, dict.suffixes[i].suffix) }
    IN IF hits = {} THEN 0 ELSE CHOOSE i \in hits : \A j \in hits : i <= j

\* variant: the write index wraps to the first slot
dict_insert_wrap0(dict, suffix, offset) ==
    LET entry == [offset |-> offset, len |-> Len(suffix), suffix |-> suffix]
        index == dict.index + 1
        looked_up(hit) ==
            IF hit # 0 THEN [dict |-> dict, ref |-> dict.suffixes[hit].offset]
            ELSE [dict |-> [count |-> IF index > dict.count THEN index ELSE dict.count,
                            index |-> IF index = MAX_SUFFIXES THEN 0 ELSE index,
                            suffixes |-> IF index > Len(dict.suffixes)
                                         THEN Append(dict.suffixes, entry)
                                         ELSE [dict.suffixes EXCEPT ![index] = entry]],
                  ref |-> None]
    IN IF offset >= 16384 THEN [dict |-> dict, ref |-> None]
       ELSE IF Len(suffix) <= 2 \/ Len(suffix) > MAX_SUFFIX_LEN
       THEN [dict |-> dict, ref |-> None]
       ELSE looked_up(dict_find(dict, suffix))

\* SuffixDict::insert: ref is the offset of the matching entry, or None
\* after the suffix went into the table (or was refused)
dict_insert(dict, suffix, offset) ==
    LET entry == [offset |-> offset, len |-> Len(suffix), suffix |-> suffix]
        index == dict.index + 1
        looked_up(hit) ==
            IF hit # 0 THEN [dict |-> dict, ref |-> dict.suffixes[hit].offset]
            ELSE [dict |-> [count |-> IF index > dict.count THEN index ELSE dict.count,
                            index |-> IF index = MAX_SUFFIXES THEN 1 ELSE index,
                            suffixes |-> IF index > Len(dict.suffixes)
                                         THEN Append(dict.suffixes, entry)
                                         ELSE [dict.suffixes EXCEPT ![index] = entry]],
                  ref |-> None]
    IN IF offset >= 16384 THEN [dict |-> dict, ref |-> None]
       ELSE IF Len(suffix) <= 2 \/ Len(suffix) > MAX_SUFFIX_LEN
       THEN [dict |-> dict, ref |-> None]
       ELSE looked_up(dict_find(dict, suffix))

\* the loop of Compress::copy_compressed_name: labels of packet[offset..
\* final_offset] are emitted until a suffix is found in the dictionary;
\* the dictionary records base + offset for a new suffix
RECURSIVE ccn_emit(_, _, _, _, _, _)
ccn_emit(dict, compressed, packet, offset, final_offset, base) ==
    LET label_len == Rd(packet, offset)
        offset_next == offset + 1 + label_len
        inserted(ins) ==
            IF ins.ref # None
            THEN Ok([dict |-> ins.dict,
                     out |-> compressed \o <<192 + ((ins.ref \div 256) % 64), ins.ref % 256>>])
            ELSE IF label_len = OOB \/ ~InRange(packet, offset, offset_next)
            THEN Panic("copy_compressed_name: label slice")
            ELSE IF label_len = 0
            THEN Ok([dict |-> ins.dict, out |-> compressed \o <<0>>])
            ELSE ccn_emit(ins.dict, compressed \o Slice(packet, offset, offset_next), packet,
                          offset_next, final_offset, base)
    IN IF ~InRange(packet, offset, final_offset)
       THEN Panic("copy_compressed_name: packet[offset..]")
       ELSE inserted(dict_insert(dict, Slice(packet, offset, final_offset), base + offset))

\* Compress::copy_compressed_name_with_base_offset: as copy_compressed_name,
\* but the dictionary records base_offset plus the offset within the name,
\* which is where the suffix lands in the output
copy_compressed_name_with_base_offset(dict, compressed, packet, offset, base_offset) ==
    LET emitted(uncompressed_name_len, r) ==
            IF ~IsOk(r) THEN r
            ELSE Ok([dict |-> r.val.dict, out |-> r.val.out,
                     name_len |-> Len(r.val.out) - Len(compressed),
                     final_offset |-> offset + uncompressed_name_len])
        measured(uncompressed_name_len) ==
            IF uncompressed_name_len = None THEN Panic("raw_name_len: name[i]")
            ELSE emitted(uncompressed_name_len,
                         ccn_emit(dict, compressed, packet, offset,
                                  offset + uncompressed_name_len, base_offset))
    IN measured(IF offset > Len(packet) THEN None
                ELSE raw_name_len(Slice(packet, offset, Len(packet))))

\* Compress::copy_compressed_name: the dictionary records the offset the
\* suffix has in packet
copy_compressed_name(dict, compressed, packet, offset) ==
    copy_compressed_name_with_base_offset(dict, compressed, packet, offset, 0)

\* Compress::compress_rdata
compress_rdata(dict, compressed, packet, name_end, type, rdlen) ==
    LET offset == Len(compressed)
        header == compressed \o Slice(packet, name_end, name_end + DNS_RR_HEADER_SIZE)
        patch(c, rdlen_out) == Write16(c, offset + DNS_RR_RDLEN_OFFSET, rdlen_out % 65536)
        one_name(c, extra) ==
            IF ~IsOk(c) THEN c
            ELSE Ok([dict |-> c.val.dict, out |-> patch(c.val.out, extra + c.val.name_len)])
        soa_names(u1, u2) ==
            IF ~IsOk(u2) THEN u2
            ELSE IF ~InRange(packet, u2.val.final_offset, u2.val.final_offset + 20)
            THEN Panic("compress_rdata: SOA metadata")
            ELSE Ok([dict |-> u2.val.dict,
                     out |-> patch(u2.val.out \o Slice(packet, u2.val.final_offset,
                                                          u2.val.final_offset + 20),
                                   u1.val.name_len + u2.val.name_len + 20)])
        soa_name(u1) ==
            IF ~IsOk(u1) THEN u1
            ELSE soa_names(u1, copy_compressed_name(u1.val.dict, u1.val.out, packet,
                                                    u1.val.final_offset))
    IN
    IF type = None
    THEN IF ~InRange(packet, name_end, name_end + DNS_RR_QUESTION_HEADER_SIZE)
         THEN Panic("compress_rdata: rdata[..4]")
         ELSE Ok([dict |-> dict,
                  out |-> compressed
                              \o Slice(packet, name_end, name_end + DNS_RR_QUESTION_HEADER_SIZE)])
    ELSE IF type \in {TYPE_NS, TYPE_CNAME, TYPE_PTR}
    THEN IF ~InRange(packet, name_end, name_end + DNS_RR_HEADER_SIZE)
         THEN Panic("compress_rdata: rdata[..10]")
         ELSE one_name(copy_compressed_name(dict, header, packet,
                                            name_end + DNS_RR_HEADER_SIZE), 0)
    ELSE IF type = TYPE_MX
    THEN IF ~InRange(packet, name_end, name_end + DNS_RR_HEADER_SIZE + 2)
         THEN Panic("compress_rdata: rdata[..12]")
         ELSE one_name(copy_compressed_name(
                           dict,
                           compressed \o Slice(packet, name_end, name_end + DNS_RR_HEADER_SIZE + 2),
                           packet, name_end + DNS_RR_HEADER_SIZE + 2), 2)
    ELSE IF type = TYPE_SOA
    THEN IF ~InRange(packet, name_end, name_end + DNS_RR_HEADER_SIZE)
         THEN Panic("compress_rdata: rdata[..10]")
         ELSE soa_name(copy_compressed_name(dict, header, packet,
                                            name_end + DNS_RR_HEADER_SIZE))
    ELSE IF ~InRange(packet, name_end, name_end + DNS_RR_HEADER_SIZE + rdlen)
    THEN Panic("compress_rdata: rdata[..10 + rdlen]")
    ELSE Ok([dict |-> dict,
             out |-> compressed \o Slice(packet, name_end, name_end + DNS_RR_HEADER_SIZE + rdlen)])

\* one `while let Some(item) = it` loop of compress; every section is
\* continued with next()
RECURSIVE compress_section(_, _, _, _)

\* the rest of the loop body once the record is copied: rd is what
\* compress_rdata returned
compress_item_next(p, item, rd) ==
    IF ~IsOk(rd) THEN rd
    ELSE compress_section(p, cursor_next(p, item, "next"), rd.val.dict, rd.val.out)

\* the loop body: name is what copy_compressed_name returned for the item
compress_item(p, item, name) ==
    IF ~IsOk(name) THEN name
    ELSE IF item.section # "Question"
            /\ (rr_type(p, item) = OOB16 \/ rr_rdlen(p, item) = OOB16)
    THEN Panic("rr_type / rr_rdlen: read_u16")
    ELSE compress_item_next(
             p, item,
             compress_rdata(name.val.dict, name.val.out, p.packet, item.name_end,
                            IF item.section = "Question" THEN None ELSE rr_type(p, item),
                            IF item.section = "Question" THEN None ELSE rr_rdlen(p, item)))

compress_section(p, next, dict, compressed) ==
    IF ~IsOk(next) THEN next
    ELSE IF ~next.val.some THEN Ok([dict |-> dict, out |-> compressed])
    ELSE compress_item(p, next.val.it,
                       copy_compressed_name(dict, compressed, p.packet, next.val.it.offset))

\* the records of one section appended to what r holds so far
compress_records(p, r, section, kind) ==
    IF ~IsOk(r) THEN r
    ELSE compress_section(p, cursor_next(p, NewIterator(section), kind),
                          r.val.dict, r.val.out)

\* c is what the four loops returned
compressed_packet(c) == IF ~IsOk(c) THEN c ELSE Ok(c.val.out)

\* the four loops: parsed is what parse returned for the packet
compress_sections(packet, parsed) ==
    IF ~IsOk(parsed) THEN parsed
    ELSE compressed_packet(
             compress_records(parsed.val,
             compress_records(parsed.val,
             compress_records(parsed.val,
             compress_records(parsed.val,
                 Ok([dict |-> NewSuffixDict, out |-> Slice(packet, 0, DNS_HEADER_SIZE)]),
                 "Question", "next"),
                 "Answer", "next"),
                 "NameServers", "next"),
                 "Additional", "incl"))

\* Compress::compress
compress(packet) ==
    IF Len(packet) < DNS_HEADER_SIZE THEN Err("PacketTooSmall", "")
    ELSE compress_sections(packet, parse(packet))

\* ------------------------------------------------------------ renamer
\* the first loop of Renamer::replace_raw: label boundaries are walked
\* until offset is met; None stands for an index past the name
RECURSIVE rr_seek(_, _, _)
rr_seek(name, i, offset) ==
    IF Rd(name, i) = OOB THEN None
    ELSE IF name[i + 1] = 0 \/ i = offset THEN i
    ELSE rr_seek(name, i + name[i + 1] + 1, offset)

\* the second loop: labels of name from i on are compared with source_name;
\* "eq", "ne", or "oob" for an index past one of the names
RECURSIVE rr_match(_, _, _, _)
rr_match(name, source_name, i, offset) ==
    IF Rd(name, i) = OOB THEN "oob"
    ELSE IF name[i + 1] = 0 THEN "eq"
    ELSE LET label_len == name[i + 1]
             source_label_len == Rd(source_name, i - offset)
         IN IF source_label_len = OOB THEN "oob"
            ELSE IF label_len # source_label_len THEN "ne"
            ELSE IF \E j \in 0..(label_len - 1) :
                        Rd(name, i + 1 + j) = OOB \/ Rd(source_name, i + 1 + j - offset) = OOB
            THEN "oob"
            ELSE IF \E j \in 0..(label_len - 1) :
                        to_ascii_lowercase(name[i + 2 + j])
                            # to_ascii_lowercase(source_name[i + 2 + j - offset])
            THEN "ne"
            ELSE rr_match(name, source_name, i + 1 + label_len, offset)

NoName == [some |-> FALSE, name |-> <<>>]

\* variant: empty names are refused before the lengths are compared
replace_raw_checked_first(name, target_name, source_name, match_suffix) ==
    LET name_len == Len(name)
        source_name_len == Len(source_name)
        target_name_len == Len(target_name)
        offset == name_len - source_name_len
        matched(m) ==
            IF m = "oob" THEN Panic("replace_raw: index out of bounds")
            ELSE IF m = "ne" THEN Ok(NoName)
            ELSE IF offset + target_name_len > DNS_MAX_HOSTNAME_LEN
            THEN Err("InvalidName", "Name too long")
            ELSE Ok([some |-> TRUE, name |-> Slice(name, 0, offset) \o target_name])
        sought(i) ==
            IF i = None THEN Panic("replace_raw: name[i]")
            ELSE IF i >= name_len \/ (name[i + 1] = 0 /\ name_len > 0) THEN Ok(NoName)
            ELSE IF i # offset THEN Err("InvalidName", "Inconsistent encoding")
            ELSE matched(rr_match(name, source_name, i, offset))
    IN IF source_name_len <= 0 \/ target_name_len <= 0
       THEN Err("InvalidName", "Empty name")
       ELSE IF source_name[1] = 0 \/ target_name[1] = 0
       THEN Err("InvalidName", "A non-empty name cannot start with a NUL byte")
       ELSE IF name_len < source_name_len \/ (~match_suffix /\ name_len # source_name_len)
       THEN Ok(NoName)
       ELSE sought(rr_seek(name, 0, offset))

\* Renamer::replace_raw
replace_raw(name, target_name, source_name, match_suffix) ==
    LET name_len == Len(name)
        source_name_len == Len(source_name)
        target_name_len == Len(target_name)
        offset == name_len - source_name_len
        matched(m) ==
            IF m = "oob" THEN Panic("replace_raw: index out of bounds")
            ELSE IF m = "ne" THEN Ok(NoName)
            ELSE IF offset + target_name_len > DNS_MAX_HOSTNAME_LEN
            THEN Err("InvalidName", "Name too long")
            ELSE Ok([some |-> TRUE, name |-> Slice(name, 0, offset) \o target_name])
        sought(i) ==
            IF i = None THEN Panic("replace_raw: name[i]")
            ELSE IF i >= name_len \/ (name[i + 1] = 0 /\ name_len > 0) THEN Ok(NoName)
            ELSE IF i # offset THEN Err("InvalidName", "Inconsistent encoding")
            ELSE matched(rr_match(name, source_name, i, offset))
    IN IF name_len < source_name_len \/ (~match_suffix /\ name_len # source_name_len)
       THEN Ok(NoName)
       ELSE IF source_name_len <= 0 \/ target_name_len <= 0
       THEN Err("InvalidName", "Empty name")
       ELSE IF source_name[1] = 0 \/ target_name[1] = 0
       THEN Err("InvalidName", "A non-empty name cannot start with a NUL byte")
       ELSE sought(rr_seek(name, 0, offset))

\* the name that is written: replaced_name is what replace_raw returned for
\* name
copy_replaced_name(renamed_packet, suffix_dict, name, replaced_name) ==
    IF ~IsOk(replaced_name) THEN replaced_name
    ELSE copy_compressed_name_with_base_offset(
             suffix_dict, renamed_packet,
             IF replaced_name.val.some THEN replaced_name.val.name ELSE name.val.name,
             0, Len(renamed_packet))

\* name is what copy_uncompressed_name returned
copy_with_replaced(renamed_packet, suffix_dict, name, n) ==
    IF ~IsOk(name) THEN name
    ELSE copy_replaced_name(renamed_packet, suffix_dict, name,
                            replace_raw(name.val.name, n.target_name, n.source_name,
                                        n.match_suffix))

\* Renamer::copy_with_replaced_name; n holds target_name, source_name and
\* match_suffix
copy_with_replaced_name(renamed_packet, packet, offset, suffix_dict, n) ==
    copy_with_replaced(renamed_packet, suffix_dict, copy_uncompressed_name(packet, offset), n)

\* the length of the raw name at offset, None for an index past the packet
raw_name_len_at(packet, offset) ==
    IF offset > Len(packet) THEN None ELSE raw_name_len(Slice(packet, offset, Len(packet)))

\* the rdata arms of Renamer::rename_response_section; renamed_packet ends
\* with the copied record header, which starts at offset_data. A usize
\* subtraction below zero panics when n.overflow_checks, else wraps.
rename_rdata(renamed_packet, packet, name_end, type, rdlen, suffix_dict, n) ==
    LET offset_data == Len(renamed_packet) - DNS_RR_HEADER_SIZE
        patch(c, rdlen_out) == Write16(c, offset_data + DNS_RR_RDLEN_OFFSET, rdlen_out % 65536)
        one_name(c) ==
            IF ~IsOk(c) THEN c
            ELSE Ok([dict |-> c.val.dict,
                     out |-> patch(c.val.out, Len(c.val.out) - offset_data - DNS_RR_HEADER_SIZE)])
        mx_name(renamed_packet_name_offset, c) ==
            IF ~IsOk(c) THEN c
            ELSE IF 2 + Len(c.val.out) - renamed_packet_name_offset - DNS_RR_HEADER_SIZE < 0
                    /\ n.overflow_checks
            THEN Panic("attempt to subtract with overflow")
            ELSE Ok([dict |-> c.val.dict,
                     out |-> patch(c.val.out,
                                   2 + Len(c.val.out) - renamed_packet_name_offset
                                       - DNS_RR_HEADER_SIZE)])
        soa_names(soa_metadata_offset, c2) ==
            IF ~IsOk(c2) THEN c2
            ELSE IF ~InRange(packet, soa_metadata_offset, soa_metadata_offset + 20)
            THEN Panic("rename_response_section: SOA metadata")
            ELSE Ok([dict |-> c2.val.dict,
                     out |-> patch(c2.val.out \o Slice(packet, soa_metadata_offset,
                                                         soa_metadata_offset + 20),
                                   Len(c2.val.out) + 20 - Len(renamed_packet)
                                       - DNS_RR_HEADER_SIZE)])
        soa_name2(name2_offset, name2_len, c1) ==
            IF name2_len = None THEN Panic("raw_name_len: name[i]")
            ELSE soa_names(name2_offset + name2_len,
                           copy_with_replaced_name(c1.val.out, packet, name2_offset,
                                                   c1.val.dict, n))
        soa_name1(name1_offset, name1_len, c1) ==
            IF ~IsOk(c1) THEN c1
            ELSE soa_name2(name1_offset + name1_len,
                           raw_name_len_at(packet, name1_offset + name1_len), c1)
        soa(name1_offset, name1_len) ==
            IF name1_len = None THEN Panic("raw_name_len: name[i]")
            ELSE soa_name1(name1_offset, name1_len,
                           copy_with_replaced_name(renamed_packet, packet, name1_offset,
                                                   suffix_dict, n))
    IN
    IF type \in {TYPE_NS, TYPE_CNAME, TYPE_PTR}
    THEN one_name(copy_with_replaced_name(renamed_packet, packet,
                                          name_end + DNS_RR_HEADER_SIZE, suffix_dict, n))
    ELSE IF type = TYPE_MX
    THEN IF ~InRange(packet, name_end + DNS_RR_HEADER_SIZE, name_end + DNS_RR_HEADER_SIZE + 2)
         THEN Panic("rename_response_section: MX preference")
         ELSE mx_name(Len(renamed_packet) + 2,
                      copy_with_replaced_name(
                          renamed_packet \o Slice(packet, name_end + DNS_RR_HEADER_SIZE,
                                                  name_end + DNS_RR_HEADER_SIZE + 2),
                          packet, name_end + DNS_RR_HEADER_SIZE + 2, suffix_dict, n))
    ELSE IF type = TYPE_SOA
    THEN soa(name_end + DNS_RR_HEADER_SIZE,
             raw_name_len_at(packet, name_end + DNS_RR_HEADER_SIZE))
    ELSE IF ~InRange(packet, name_end, name_end + DNS_RR_HEADER_SIZE + rdlen)
    THEN Panic("rename_response_section: rdata")
    ELSE Ok([dict |-> suffix_dict,
             out |-> renamed_packet \o Slice(packet, name_end + DNS_RR_HEADER_SIZE,
                                             name_end + DNS_RR_HEADER_SIZE + rdlen)])

\* Renamer::rename_question_section and rename_response_section: one
\* `while let Some(item) = it` loop, continued with next()
RECURSIVE rename_section(_, _, _, _, _)

\* the rest of the loop body once the record is copied: rd holds the
\* dictionary and the output
rename_item_next(p, item, rd, n) ==
    IF ~IsOk(rd) THEN rd
    ELSE rename_section(p, cursor_next(p, item, "next"), rd.val.dict, rd.val.out, n)

\* what follows the owner name: header is the output with the fixed part of
\* the record copied
rename_item_rdata(p, item, dict, header, n) ==
    rename_item_next(p, item,
                     IF item.section = "Question" THEN Ok([dict |-> dict, out |-> header])
                     ELSE rename_rdata(header, p.packet, item.name_end, rr_type(p, item),
                                       rr_rdlen(p, item), dict, n),
                     n)

\* the loop body: name is what copy_with_replaced_name returned for the item
rename_item(p, item, name, header_size, n) ==
    IF ~IsOk(name) THEN name
    ELSE IF Len(p.packet) < item.name_end + header_size THEN Err("PacketTooSmall", "")
    ELSE IF item.section # "Question" /\ rr_rdlen(p, item) = OOB16
    THEN Panic("rr_rdlen: read_u16")
    ELSE rename_item_rdata(p, item, name.val.dict,
                           name.val.out \o Slice(p.packet, item.name_end,
                                                 item.name_end + header_size),
                           n)

rename_section(p, next, suffix_dict, renamed_packet, n) ==
    IF ~IsOk(next) THEN next
    ELSE IF ~next.val.some THEN Ok([dict |-> suffix_dict, out |-> renamed_packet])
    ELSE rename_item(p, next.val.it,
                     copy_with_replaced_name(renamed_packet, p.packet, next.val.it.offset,
                                             suffix_dict, n),
                     IF next.val.it.section = "Question" THEN DNS_RR_QUESTION_HEADER_SIZE
                     ELSE DNS_RR_HEADER_SIZE,
                     n)

\* the records of one section appended to what r holds so far
rename_records(p, r, section, n) ==
    IF ~IsOk(r) THEN r
    ELSE rename_section(p, cursor_next(p, NewIterator(section), "next"),
                        r.val.dict, r.val.out, n)

\* ParsedPacket::copy_raw_edns_section: what is appended to raw_edns
copy_raw_edns_section(p) ==
    IF p.offset_edns = None \/ p.offset_edns < 1 + DNS_RR_HEADER_SIZE THEN <<>>
    ELSE Slice(p.packet, p.offset_edns - (1 + DNS_RR_HEADER_SIZE), Len(p.packet))

\* the end of rename_with_raw_names: ar is what the four loops returned
renamed_packet_with_edns(p, ar) ==
    IF ~IsOk(ar) THEN ar
    ELSE IF p.offset_edns # None /\ p.offset_edns - (1 + DNS_RR_HEADER_SIZE) > Len(p.packet)
    THEN Panic("copy_raw_edns_section: packet[offset_edns_header..]")
    ELSE Ok(ar.val.out \o copy_raw_edns_section(p))

\* Renamer::rename_with_raw_names: the renamed buffer
rename_with_raw_names(p, n) ==
    IF Len(n.target_name) <= 0 \/ Len(n.source_name) <= 0
    THEN Err("InvalidName", "Empty name")
    ELSE IF Len(n.target_name) > DNS_MAX_HOSTNAME_LEN
            \/ Len(n.source_name) > DNS_MAX_HOSTNAME_LEN
    THEN Err("InvalidName", "Name too long")
    ELSE IF ~InRange(p.packet, 0, DNS_HEADER_SIZE) THEN Panic("copy_header")
    ELSE renamed_packet_with_edns(p,
             rename_records(p,
             rename_records(p,
             rename_records(p,
             rename_records(p,
                 Ok([dict |-> NewSuffixDict, out |-> Slice(p.packet, 0, DNS_HEADER_SIZE)]),
                 "Question", n),
                 "Answer", n),
                 "NameServers", n),
                 "Additional", n))

\* ------------------------------------------------------------ mutations
\* ParsedPacket mutations (parsed_packet.rs). The val of a result is the
\* ParsedPacket the call leaves behind, also when it fails part way.
Left(r, v) == [err |-> r.err, detail |-> r.detail, val |-> v]

\* a wrapped subtraction or an out-of-range pointer copy of a build without
\* overflow checks: the behaviour of the process is undefined from there on
Undefined(detail) == [err |-> "undefined", detail |-> detail, val |-> 0]

RECURSIVE BitAnd(_, _)
BitAnd(a, b) ==
    IF a = 0 \/ b = 0 THEN 0
    ELSE (IF a % 2 = 1 /\ b % 2 = 1 THEN 1 ELSE 0) + 2 * BitAnd(a \div 2, b \div 2)

BitOr(a, b) == a + b - BitAnd(a, b)

BitClear(a, mask) == a - BitAnd(a, mask)

WriteByte(p, i, v) == [k \in 1..Len(p) |-> IF k = i + 1 THEN v ELSE p[k]]

set_tid(p, tid) == [p EXCEPT !.packet = Write16(p.packet, DNS_TID_OFFSET, tid)]

\* a u32 as its two 16-bit halves
U32(high, low) == <<high, low>>

DNS_FLAG_DO == U32(32768, 0)

\* opcode and rcode bits are cleared, the other flags are or-ed in; flags
\* is a u32, (flags & 0xffff) as u16 its low half
set_flags(p, flags) ==
    LET rflags == BitClear(BitClear(flags[2], 30720), 15)
        v == BitClear(BitClear(Rd16(p.packet, DNS_FLAGS_OFFSET), 30720), 15)
    IN [p EXCEPT !.packet = Write16(p.packet, DNS_FLAGS_OFFSET, BitOr(v, rflags))]

set_response(p, to_response) ==
    LET oll == Rd16(p.packet, DNS_FLAGS_OFFSET)
        v == IF to_response THEN BitOr(oll, DNS_FLAG_QR) ELSE BitClear(oll, DNS_FLAG_QR)
    IN [p EXCEPT !.packet = Write16(p.packet, DNS_FLAGS_OFFSET, v)]

set_rcode(p, rcode) ==
    LET b == Rd(p.packet, DNS_FLAGS_OFFSET + 1) IN
    [p EXCEPT !.packet = WriteByte(p.packet, DNS_FLAGS_OFFSET + 1,
                                   BitOr(BitClear(b, 15), BitAnd(rcode, 15)))]

set_opcode(p, opcode) ==
    LET b == Rd(p.packet, DNS_FLAGS_OFFSET) IN
    [p EXCEPT !.packet = WriteByte(p.packet, DNS_FLAGS_OFFSET,
                                   BitOr(BitClear(b, 120), BitAnd((opcode * 8) % 256, 120)))]

rrcount_offset(section) ==
    CASE section = "Question" -> 4
      [] section = "Answer" -> 6
      [] section = "NameServers" -> 8
      [] section = "Additional" -> 10

\* val: the packet with the count written and the new count
rrcount_inc(packet, section) ==
    LET rrcount == Rd16(packet, rrcount_offset(section)) IN
    IF section = "Question" /\ rrcount >= 1
    THEN Err("InvalidPacket", "A DNS packet can only contain up to one question")
    ELSE IF rrcount >= 65535
    THEN Err("InvalidPacket", "Too many records in the same question")
    ELSE Ok([packet |-> Write16(packet, rrcount_offset(section), rrcount + 1),
             rrcount |-> rrcount + 1])

rrcount_dec(packet, section) ==
    LET rrcount == Rd16(packet, rrcount_offset(section)) IN
    IF rrcount <= 0
    THEN Panic("Trying to decrement a number of records that was already 0")
    ELSE Ok([packet |-> Write16(packet, rrcount_offset(section), rrcount - 1),
             rrcount |-> rrcount - 1])

\* Option::or
OrElse(a, b) == IF a # None THEN a ELSE b

insertion_offset(p, section) ==
    CASE section = "Question" ->
             OrElse(p.offset_answers,
                    OrElse(p.offset_nameservers, OrElse(p.offset_additional, Len(p.packet))))
      [] section = "Answer" ->
             OrElse(p.offset_nameservers, OrElse(p.offset_additional, Len(p.packet)))
      [] section = "NameServers" -> OrElse(p.offset_additional, Len(p.packet))
      [] section = "Additional" -> Len(p.packet)

\* ParsedPacket::packet after Option::take: self.packet is None
Taken == <<None>>

\* ParsedPacket::recompute: the buffer is taken out of the ParsedPacket
\* before it is parsed again, and is not put back when parsing fails
recompute(p) ==
    LET parsed(r) ==
            IF ~IsOk(r) THEN Left(r, [p EXCEPT !.packet = Taken])
            ELSE IF <<p.edns_count, p.ext_rcode, p.edns_version, p.ext_flags>>
                        # <<r.val.edns_count, r.val.ext_rcode, r.val.edns_version,
                             r.val.ext_flags>>
            THEN Panic("assertion failed: (left == right)")
            ELSE Ok([p EXCEPT !.offset_question = r.val.offset_question,
                              !.offset_answers = r.val.offset_answers,
                              !.offset_nameservers = r.val.offset_nameservers,
                              !.offset_additional = r.val.offset_additional,
                              !.offset_edns = r.val.offset_edns,
                              !.maybe_compressed = FALSE,
                              !.cached = <<>>])
    IN IF ~p.maybe_compressed THEN Ok(p) ELSE parsed(parse(p.packet))

\* Option::map(|x| x + n)
Shifted(o, n) == IF o = None THEN None ELSE o + n

\* the section offsets after rr_len bytes were spliced in at insertion_offset
insert_rr_offsets(p, section, at, rr_len) ==
    CASE section = "Question" ->
             [p EXCEPT !.offset_question = OrElse(p.offset_question, at),
                       !.offset_answers = Shifted(p.offset_answers, rr_len),
                       !.offset_nameservers = Shifted(p.offset_nameservers, rr_len),
                       !.offset_additional = Shifted(p.offset_additional, rr_len),
                       !.offset_edns = Shifted(p.offset_edns, rr_len)]
      [] section = "Answer" ->
             [p EXCEPT !.offset_answers = OrElse(p.offset_answers, at),
                       !.offset_nameservers = Shifted(p.offset_nameservers, rr_len),
                       !.offset_additional = Shifted(p.offset_additional, rr_len),
                       !.offset_edns = Shifted(p.offset_edns, rr_len)]
      [] section = "NameServers" ->
             [p EXCEPT !.offset_nameservers = OrElse(p.offset_nameservers, at),
                       !.offset_additional = Shifted(p.offset_additional, rr_len),
                       !.offset_edns = Shifted(p.offset_edns, rr_len)]
      [] section = "Additional" ->
             [p EXCEPT !.offset_additional = OrElse(p.offset_additional, at)]

\* the splice and what follows it; p is not compressed any more
insert_rr_spliced(p, section, rr, overflow_checks) ==
    LET rr_len == Len(rr)
        packet_len == Len(p.packet)
        counted(at, spliced, inc) ==
            IF ~IsOk(inc) THEN Left(inc, [p EXCEPT !.packet = spliced])
            ELSE Ok(insert_rr_offsets([p EXCEPT !.packet = inc.val.packet], section, at,
                                      rr_len))
        spliced_at(at, spliced) == counted(at, spliced, rrcount_inc(spliced, section))
        placed(at) ==
            IF at > packet_len /\ at # packet_len + rr_len
            THEN Left(Panic("copy_within: slice index starts after its end"), p)
            ELSE spliced_at(at, IF at = packet_len + rr_len THEN p.packet \o rr
                                ELSE Slice(p.packet, 0, at) \o rr
                                         \o Slice(p.packet, at, packet_len))
    IN IF packet_len > DNS_MAX_UNCOMPRESSED_SIZE /\ overflow_checks
       THEN Left(Panic("attempt to subtract with overflow"), p)
       ELSE IF packet_len <= DNS_MAX_UNCOMPRESSED_SIZE
               /\ DNS_MAX_UNCOMPRESSED_SIZE - packet_len < rr_len
       THEN Left(Err("PacketTooLarge", ""), p)
       ELSE placed(insertion_offset(p, section))

\* q is what the `if self.maybe_compressed` block of insert_rr returned
insert_rr_splice(q, section, rr, overflow_checks) ==
    IF ~IsOk(q) THEN q ELSE insert_rr_spliced(q.val, section, rr, overflow_checks)

\* u is what uncompress returned
insert_rr_recomputed(p, u) ==
    IF ~IsOk(u) THEN Left(u, p) ELSE recompute([p EXCEPT !.packet = u.val])

insert_rr(p, section, rr, overflow_checks) ==
    insert_rr_splice(IF ~p.maybe_compressed THEN Ok(p)
                     ELSE insert_rr_recomputed(p, uncompress(p.packet)),
                     section, rr, overflow_checks)

\* Cursor mutations (rr_iterator.rs). The val of a result is the pair a call
\* leaves behind: the ParsedPacket p and the cursor it.
Pair(p, it) == [p |-> p, it |-> it]

\* Option<usize> orders None before every Some, as None == -1 does
current_section(p, it) ==
    IF it.offset < p.offset_question
    THEN Err("InternalError", "name before the question section")
    ELSE Ok(IF p.offset_additional # None /\ it.offset >= p.offset_additional
            THEN "Additional"
            ELSE IF p.offset_nameservers # None /\ it.offset >= p.offset_nameservers
            THEN "NameServers"
            ELSE IF p.offset_answers # None /\ it.offset >= p.offset_answers
            THEN "Answer"
            ELSE "Question")

\* RRIterator::recompute, for question cursors too
recompute_rr(p, it) ==
    IF it.offset = None THEN Panic("recompute() called prior to iterating over RRs")
    ELSE position_rr(p.packet, it, it.offset)

\* the buffer after the bytes from offset on were moved by shift
resized(packet, offset, shift) ==
    IF shift > 0
    THEN [k \in 1..(Len(packet) + shift) |->
             IF k - 1 >= offset + shift THEN packet[k - shift]
             ELSE IF k <= Len(packet) THEN packet[k] ELSE 0]
    ELSE Slice(packet, 0, offset) \o Slice(packet, offset - shift, Len(packet))

\* the section offsets behind the resized record (offset_edns is not one of
\* them)
resize_rr_offsets(p, section, shift) ==
    [p EXCEPT !.offset_additional =
                  IF section \in {"NameServers", "Answer", "Question"}
                  THEN Shifted(@, shift) ELSE @,
              !.offset_nameservers =
                  IF section \in {"Answer", "Question"} THEN Shifted(@, shift) ELSE @,
              !.offset_answers = IF section = "Question" THEN Shifted(@, shift) ELSE @]

resize_rr(p, it, shift, overflow_checks) ==
    LET packet_len == Len(p.packet)
        offset == it.offset
        sectioned(p1, it1, section) ==
            IF ~IsOk(section) THEN Left(section, Pair(p1, it1))
            ELSE Ok(Pair(resize_rr_offsets(p1, section.val, shift), it1))
        moved(p1, it1) ==
            IF it1.offset_next < 0
            THEN IF overflow_checks
                 THEN Panic("assertion failed: offset <= self.packet().len()")
                 ELSE Undefined("offset_next wrapped")
            ELSE IF overflow_checks /\ it1.offset_next > Len(p1.packet)
            THEN Panic("assertion failed: offset <= self.packet().len()")
            ELSE sectioned(p1, it1, current_section(p1, it1))
    IN IF shift = 0 THEN Ok(Pair(p, it))
       ELSE IF it.offset = None THEN Left(Err("VoidRecord", ""), Pair(p, it))
       ELSE IF shift > 0 /\ packet_len + shift > 65535
       THEN Left(Err("PacketTooLarge", ""), Pair(p, it))
       ELSE IF shift < 0 /\ ~(packet_len >= -shift)
       THEN Panic("assertion failed: packet_len >= (-shift) as usize")
       ELSE IF (shift > 0 /\ offset > packet_len) \/ (shift < 0 /\ offset - shift > packet_len)
       THEN IF overflow_checks THEN Panic("attempt to subtract with overflow")
            ELSE Undefined("ptr::copy of a wrapped length")
       ELSE moved([p EXCEPT !.packet = resized(p.packet, offset, shift)],
                  [it EXCEPT !.offset_next = it.offset_next + shift])

\* the end of the `if self.parsed_packet().maybe_compressed` block: r is
\* what recompute_rr returned and q what recompute_sections did
recomputed_under_cursor(r, q) ==
    IF ~IsOk(r) THEN r
    ELSE IF ~IsOk(q) THEN Panic("called Result::unwrap() on an Err value")
    ELSE Ok(Pair(q.val, r.val.it))

\* u is what uncompress_with_previous_offset returned
uncompressed_under_cursor(p, it, u) ==
    IF ~IsOk(u) THEN Left(u, Pair(p, it))
    ELSE recomputed_under_cursor(recompute_rr([p EXCEPT !.packet = u.val.out],
                                              [it EXCEPT !.offset = u.val.new_offset]),
                                 recompute([p EXCEPT !.packet = u.val.out]))

\* the decompression set_raw_name and delete start with on a buffer that may
\* be compressed: the cursor is moved onto the record's new offset
uncompress_under_cursor(p, it) ==
    uncompressed_under_cursor(p, it, uncompress_with_previous_offset(p.packet, it.offset))

\* set_raw_name on the record under the cursor of a buffer that is not
\* compressed
set_raw_name_at(p, it, name, new_name_len, overflow_checks) ==
    LET renamed(p1, r) == IF ~IsOk(r) THEN r ELSE Ok(Pair(p1, r.val.it))
        copied(p1, it1) == renamed(p1, recompute_rr(p1, it1))
        resized_rr(rz) ==
            IF ~IsOk(rz) THEN rz
            ELSE IF it.offset + new_name_len > Len(rz.val.p.packet)
            THEN Panic("copy_from_slice: slice index out of range")
            ELSE copied([rz.val.p EXCEPT !.packet =
                             Slice(@, 0, it.offset) \o Slice(name, 0, new_name_len)
                                 \o Slice(@, it.offset + new_name_len, Len(@))],
                        rz.val.it)
        measured(current_name_len) ==
            IF current_name_len = None THEN Panic("raw_name_len: name[i]")
            ELSE resized_rr(resize_rr(p, it, new_name_len - current_name_len,
                                      overflow_checks))
    IN IF it.offset = None THEN Left(Err("VoidRecord", ""), Pair(p, it))
       ELSE IF it.name_end < it.offset \/ it.name_end > Len(p.packet)
       THEN Panic("name_slice: slice index out of range")
       ELSE measured(raw_name_len(Slice(p.packet, it.offset, it.name_end)))

\* set_raw_name after its `if self.parsed_packet().maybe_compressed` block,
\* which returned u
set_raw_name_plain(u, name, new_name_len, overflow_checks) ==
    IF ~IsOk(u) THEN u
    ELSE set_raw_name_at(u.val.p, u.val.it, name, new_name_len, overflow_checks)

\* c is what check_uncompressed_name returned for the new name
set_raw_name_checked(p, it, name, c, overflow_checks) ==
    IF ~IsOk(c) THEN Left(c, Pair(p, it))
    ELSE set_raw_name_plain(IF ~p.maybe_compressed THEN Ok(Pair(p, it))
                            ELSE IF it.offset = None
                            THEN Left(Err("VoidRecord", ""), Pair(p, it))
                            ELSE uncompress_under_cursor(p, it),
                            name, c.val, overflow_checks)

set_raw_name(p, it, name, overflow_checks) ==
    set_raw_name_checked(p, it, name, check_uncompressed_name(name, 0), overflow_checks)

\* delete of the record under the cursor of a buffer that is not compressed
delete_at(p, it, section, overflow_checks) ==
    LET emptied(p1) ==
            CASE section = "Question" -> [p1 EXCEPT !.offset_question = None]
              [] section = "Answer" -> [p1 EXCEPT !.offset_answers = None]
              [] section = "NameServers" -> [p1 EXCEPT !.offset_nameservers = None]
              [] section = "Additional" -> [p1 EXCEPT !.offset_additional = None]
        counted(rz, dec) ==
            IF ~IsOk(dec) THEN dec
            ELSE Ok(Pair(IF dec.val.rrcount > 0
                         THEN [rz.val.p EXCEPT !.packet = dec.val.packet]
                         ELSE emptied([rz.val.p EXCEPT !.packet = dec.val.packet]),
                         [rz.val.it EXCEPT !.offset_next = it.offset, !.offset = None]))
        resized_rr(rz) ==
            IF ~IsOk(rz) THEN rz ELSE counted(rz, rrcount_dec(rz.val.p.packet, section))
    IN IF it.offset_next - it.offset < 0 /\ overflow_checks
       THEN Panic("attempt to subtract with overflow")
       ELSE IF it.offset_next - it.offset = 0 THEN Panic("assertion failed: rr_len > 0")
       ELSE resized_rr(resize_rr(p, it, -(it.offset_next - it.offset), overflow_checks))

\* delete after its `if self.parsed_packet().maybe_compressed` block, which
\* returned u
delete_plain(u, section, overflow_checks) ==
    IF ~IsOk(u) THEN u ELSE delete_at(u.val.p, u.val.it, section, overflow_checks)

\* section is what current_section returned
delete_in(p, it, section, overflow_checks) ==
    IF ~IsOk(section) THEN Left(section, Pair(p, it))
    ELSE delete_plain(IF ~p.maybe_compressed THEN Ok(Pair(p, it))
                      ELSE uncompress_under_cursor(p, it),
                      section.val, overflow_checks)

delete(p, it, overflow_checks) ==
    IF it.offset = None THEN Left(Err("VoidRecord", ""), Pair(p, it))
    ELSE delete_in(p, it, current_section(p, it), overflow_checks)

\* DNSIterable::raw / raw_mut: offset.unwrap(), then packet[name_end..]
rdata_slice(p, it) ==
    IF it.offset = None THEN Panic("called Option::unwrap() on a None value")
    ELSE IF it.name_end > Len(p.packet) THEN Panic("rdata_slice: slice index out of range")
    ELSE Ok(Slice(p.packet, it.name_end, Len(p.packet)))

\* BigEndian::write_u32(&mut p[i..], v)
Write32(p, i, v) == Write16(Write16(p, i, (v \div 65536) % 65536), i + 2, v % 65536)

\* RdataIterable::set_rr_ttl, which returns no Result
set_rr_ttl(p, it, ttl) ==
    LET written(rdata) ==
            IF ~IsOk(rdata) THEN rdata
            ELSE IF Len(rdata.val) < DNS_RR_TTL_OFFSET + 4 THEN Panic("write_u32: index out of range")
            ELSE Ok(Pair([p EXCEPT !.packet = Write32(@, it.name_end + DNS_RR_TTL_OFFSET, ttl)],
                         it))
    IN written(rdata_slice(p, it))

\* the octets copied over the address of an A or AAAA record
set_rr_ip_octets(p, it, rdata, octets) ==
    IF ~(Len(rdata) >= DNS_RR_HEADER_SIZE + Len(octets))
    THEN Panic("assertion failed: rdata.len() >= DNS_RR_HEADER_SIZE + 4")
    ELSE Ok(Pair([p EXCEPT !.packet =
                      Slice(@, 0, it.name_end + DNS_RR_HEADER_SIZE) \o octets
                          \o Slice(@, it.name_end + DNS_RR_HEADER_SIZE + Len(octets), Len(@))],
                 it))

\* RdataIterable::set_rr_ip; ip is the octets of an IpAddr, 4 for V4 and 16
\* for V6
set_rr_ip(p, it, ip) ==
    LET typed(rdata) ==
            IF ~IsOk(rdata) THEN rdata
            ELSE IF Len(rdata.val) < DNS_RR_TYPE_OFFSET + 2 THEN Panic("rr_type: read_u16")
            ELSE IF rr_type(p, it) = TYPE_A
            THEN IF Len(ip) = 4 THEN set_rr_ip_octets(p, it, rdata.val, ip)
                 ELSE Left(Err("WrongAddressFamily", ""), Pair(p, it))
            ELSE IF rr_type(p, it) = TYPE_AAAA
            THEN IF Len(ip) = 16 THEN set_rr_ip_octets(p, it, rdata.val, ip)
                 ELSE Left(Err("WrongAddressFamily", ""), Pair(p, it))
            ELSE Left(Err("PropertyNotFound", ""), Pair(p, it))
    IN typed(rdata_slice(p, it))

\* the end of DNSIterable::uncompress: q is what recompute_sections did, and
\* recompute_rr then starts from the offset the cursor had
recomputed_from_offset(q, it) ==
    LET moved(r) == IF ~IsOk(r) THEN r ELSE Ok(Pair(q.val, r.val.it))
    IN IF ~IsOk(q) THEN Panic("called Result::unwrap() on an Err value")
       ELSE moved(recompute_rr(q.val, it))

\* u is what uncompress_with_previous_offset returned for offset_next
uncompressed_from_next(p, it, u, debug_assertions) ==
    IF ~IsOk(u) THEN Left(u, Pair(p, it))
    ELSE IF debug_assertions /\ ~(u.val.new_offset <= Len(u.val.out))
    THEN Panic("assertion failed: offset <= self.packet().len()")
    ELSE recomputed_from_offset(recompute([p EXCEPT !.packet = u.val.out]),
                                [it EXCEPT !.offset_next = u.val.new_offset])

\* DNSIterable::uncompress
iterable_uncompress(p, it, debug_assertions) ==
    IF ~p.maybe_compressed THEN Ok(Pair(p, it))
    ELSE IF it.offset = None THEN Panic("called Option::unwrap() on a None value")
    ELSE uncompressed_from_next(p, it,
                                uncompress_with_previous_offset(p.packet, it.offset_next),
                                debug_assertions)

\* ParsedPacket::rename_with_raw_names after the Validator ran on the
\* renamed buffer that was taken out of self.packet
renamed_and_parsed(p, r) ==
    IF ~IsOk(r) THEN Left(r, [p EXCEPT !.packet = Taken])
    ELSE IF <<p.edns_count, p.ext_rcode, p.edns_version, p.ext_flags>>
               # <<r.val.edns_count, r.val.ext_rcode, r.val.edns_version, r.val.ext_flags>>
    THEN Panic("assertion failed: (left == right)")
    ELSE Ok([p EXCEPT !.packet = Taken,
                      !.offset_question = r.val.offset_question,
                      !.offset_answers = r.val.offset_answers,
                      !.offset_nameservers = r.val.offset_nameservers,
                      !.offset_additional = r.val.offset_additional,
                      !.offset_edns = r.val.offset_edns,
                      !.maybe_compressed = TRUE])

\* the debug assertions of ParsedPacket::copy_raw_edns_section, the last
\* call of the Renamer: renamed is what the Renamer returns without them
debug_copy_raw_edns_section(p, renamed, debug_assertions) ==
    IF ~debug_assertions \/ ~IsOk(renamed) \/ p.offset_edns = None THEN renamed
    ELSE IF p.offset_edns < 1 + DNS_RR_HEADER_SIZE
    THEN Panic("assertion failed: offset_edns >= 1 + DNS_RR_HEADER_SIZE")
    ELSE IF Rd(p.packet, p.offset_edns - (1 + DNS_RR_HEADER_SIZE)) = OOB
    THEN Panic("copy_raw_edns_section: packet[offset_edns_header]")
    ELSE IF Rd(p.packet, p.offset_edns - (1 + DNS_RR_HEADER_SIZE)) # 0
    THEN Panic("assertion failed: packet[offset_edns_header] == 0")
    ELSE renamed

\* ParsedPacket::rename_with_raw_names; renamed is what
\* Renamer::rename_with_raw_names returned
renamed_in_place(p, renamed) ==
    IF ~IsOk(renamed) THEN Left(renamed, p)
    ELSE renamed_and_parsed(p, parse(renamed.val))

\* ------------------------------------------------------------ packets
\* Wire images of a header, a question and a record (synth::gen::RR lays
\* records out the same way: name, type, class, ttl, rdlen, rdata).
Hdr(flags, qd, an, ns, ar) ==
    <<0, 0>> \o U16(flags) \o U16(qd) \o U16(an) \o U16(ns) \o U16(ar)

Q(name, type) == name \o U16(type) \o U16(CLASS_IN)

RRc(name, type, class, ttl, rdata) ==
    name \o U16(type) \o U16(class) \o ttl \o U16(Len(rdata)) \o rdata

RR(name, type, rdata) == RRc(name, type, CLASS_IN, <<0, 0, 0, 60>>, rdata)

Fill(n, b) == [i \in 1..n |-> b]

Label(n, b) == <<n>> \o Fill(n, b)

RECURSIVE Concat(_)
Concat(ss) == IF ss = <<>> THEN <<>> ELSE Head(ss) \o Concat(Tail(ss))

\* k two-byte pointers laid out from offset at: the first targets first,
\* each next one targets the pointer before it
RECURSIVE PtrChain(_, _, _)
PtrChain(k, at, first) ==
    IF k = 0 THEN <<>>
    ELSE <<192 + first \div 256, first % 256>> \o PtrChain(k - 1, at + 2, at)

Ptr(target) == <<192 + target \div 256, target % 256>>

\* ------------------------------------------------------------ parser inputs

FLAGS_RESPONSE == DNS_FLAG_QR + DNS_FLAG_RD + DNS_FLAG_RA

FLAGS_QUERY == DNS_FLAG_RD + 0

\* question name "b.a": labels at offsets 12 and 14, terminator at 16
QName == <<1, 98, 1, 97, 0>>

\* offset of the first record after the question "b.a"
AfterQuestion == DNS_HEADER_SIZE + Len(QName) + DNS_RR_QUESTION_HEADER_SIZE

MaxChain == 17

PokeBytes == {0, 1, 64, 192, 255}

RR_A(name) == RR(name, TYPE_A, <<10, 0, 0, 1>>)

RR_NS(name) == RR(name, TYPE_NS, <<1, 99>> \o Ptr(12))

RR_MX(name) == RR(name, TYPE_MX, <<0, 10, 1, 109>> \o Ptr(14))

RR_SOA(name) == RR(name, TYPE_SOA, Ptr(12) \o <<1, 104>> \o Ptr(14) \o Fill(20, 7))

RR_TXT(name) == RR(name, TYPE_TXT, <<1, 120>>)

RR_OPT(rdata) == RRc(<<0>>, TYPE_OPT, 1232, <<0, 0, 128, 0>>, rdata)

EdnsOption == <<0, 10, 0, 2, 7, 7>>

Response(an, ns, ar) ==
    Hdr(FLAGS_RESPONSE, 1, Len(an), Len(ns), Len(ar)) \o Q(QName, TYPE_A)
        \o Concat(an) \o Concat(ns) \o Concat(ar)

\* an opaque record holding a chain of k pointers, then a record whose owner
\* name is a pointer to the last of them: k + 1 pointers are followed
ChainPacket(k) ==
    Response(<<RR(<<0>>, TYPE_TXT, PtrChain(k, AfterQuestion + 11, 12)),
               RR_A(Ptr(AfterQuestion + 11 + 2 * (k - 1)))>>, <<>>, <<>>)

\* a question name of 192 + n + 2 bytes, and an answer whose owner name
\* reaches it through a pointer, after own bytes
LongPacket(n, own) ==
    Hdr(FLAGS_RESPONSE, 1, 1, 0, 0)
        \o Q(Label(63, 97) \o Label(63, 98) \o Label(63, 99) \o Label(n, 100) \o <<0>>, TYPE_A)
        \o RR_A(own \o Ptr(12))

ShortPackets ==
    { Hdr(FLAGS_QUERY, 1, 0, 0, 0) \o Q(QName, TYPE_A),
      Hdr(FLAGS_QUERY, 1, 0, 0, 1) \o Q(<<0>>, TYPE_NS) \o RR_OPT(EdnsOption),
      Hdr(FLAGS_QUERY, 1, 1, 0, 0) \o Q(QName, TYPE_A) \o RR_A(Ptr(12)),
      Hdr(FLAGS_QUERY, 1, 0, 1, 0) \o Q(QName, TYPE_A) \o RR_NS(Ptr(12)),
      Hdr(FLAGS_RESPONSE, 0, 1, 0, 0) \o RR_A(<<0>>),
      Hdr(FLAGS_RESPONSE, 2, 0, 0, 0) \o Q(QName, TYPE_A) \o Q(QName, TYPE_A),
      Response(<<RR_A(Ptr(12))>>, <<>>, <<>>),
      Response(<<RR_A(Ptr(12)), RR_A(<<1, 66>> \o Ptr(14))>>, <<RR_NS(Ptr(14))>>,
               <<RR_OPT(<<>>)>>),
      Response(<<RR_MX(Ptr(12))>>, <<RR_SOA(Ptr(14))>>, <<RR_A(Ptr(21)), RR_OPT(EdnsOption)>>),
      Response(<<RR_A(Ptr(40))>>, <<>>, <<>>),
      Response(<<RR_A(Ptr(21))>>, <<>>, <<>>),
      Response(<<RR_A(<<1, 120>> \o Ptr(21))>>, <<>>, <<>>),
      Response(<<RR_A(<<64>> \o Fill(64, 97) \o <<0>>)>>, <<>>, <<>>),
      Response(<<RRc(Ptr(12), TYPE_A, 3, <<0, 0, 0, 0>>, <<1, 2, 3, 4>>)>>, <<>>, <<>>),
      Response(<<RR_OPT(<<>>)>>, <<>>, <<>>),
      Response(<<>>, <<>>, <<RR_OPT(<<>>), RR_OPT(<<>>)>>),
      Response(<<>>, <<>>, <<RR_OPT(<<0, 10, 0, 9, 7>>)>>) }

Prefixes(packets) == UNION { { SubSeq(b, 1, n) : n \in 0..Len(b) } : b \in packets }

Poke(b, i, v) == [b EXCEPT ![i] = v]

Pokes(packets) ==
    UNION { { Poke(b, i, v) : i \in (DNS_HEADER_SIZE + 1)..Len(b), v \in PokeBytes } :
            b \in packets }

ParseInputs ==
    Prefixes(ShortPackets) \cup Pokes(ShortPackets)
        \cup { ChainPacket(k) : k \in 1..MaxChain }
        \cup { LongPacket(n, own) : n \in {61, 62}, own \in {<<>>, <<1, 120>>} }

\* ------------------------------------------------------------ parser runs
\* SpecParse: an arbitrary buffer is handed to DNSSector::parse, or one of
\* its offsets to Compress::check_compressed_name; an accepted packet is
\* then walked record by record and its names are expanded.
NoPacket == NewParsedPacket(<<>>, None, None, None, None, NewSector)

NoResult == [err |-> "none", detail |-> "", val |-> 0]

Outcome(r) == [err |-> r.err, detail |-> r.detail, val |-> 0]

\* hist: the last operation applied (op), the one before it (pre), the
\* offset or argument it was applied to (at, arg), the buffer it was applied
\* to (before), the number of operations so far (n) and whether all of
\* them succeeded (ok), whether all before it did (was), and for a cursor
\* step whether OPT records are skipped (kind "next") or not ("incl")
NoArgs == [target_name |-> <<>>, source_name |-> <<>>, match_suffix |-> FALSE,
           overflow_checks |-> FALSE]

Step(op, at) == [op |-> op, pre |-> "", at |-> at, arg |-> NoArgs, before |-> <<>>,
                 n |-> 0, ok |-> TRUE, section |-> "none", was |-> TRUE, kind |-> ""]

ParseInit ==
    /\ input \in ParseInputs
    /\ pp = NoPacket
    /\ cur = NewIterator("none")
    /\ res = NoResult
    /\ hist = Step("init", 0)

\* the caller keeps the ParsedPacket of a buffer that was accepted
Parsed(r) ==
    /\ res' = Outcome(r)
    /\ pp' = IF IsOk(r) THEN r.val ELSE pp

DoParse ==
    /\ hist.op = "init"
    /\ Parsed(parse(input))
    /\ hist' = Step("parse", 0)
    /\ UNCHANGED <<input, cur>>

DoCheckName ==
    /\ hist.op = "init"
    /\ \E offset \in 0..Len(input) :
          /\ res' = check_compressed_name(input, offset)
          /\ hist' = Step("check_name", offset)
    /\ UNCHANGED <<input, pp, cur>>

Positioned == hist.op \in {"open", "next"} /\ IsOk(res) /\ cur.offset # None

\* the cursor an iteration step leaves behind
Landed(r) == IF IsOk(r) /\ r.val.some THEN r.val.it ELSE NewIterator("none")

Stepped(r) ==
    /\ res' = Outcome(r)
    /\ cur' = Landed(r)

DoOpen ==
    /\ hist.op = "parse" /\ IsOk(res)
    /\ \E section \in {"Question", "Answer", "NameServers", "Additional"} :
          Stepped(cursor_next(pp, NewIterator(section), "incl"))
    /\ hist' = Step("open", 0)
    /\ UNCHANGED <<input, pp>>

DoNext ==
    /\ Positioned
    /\ Stepped(cursor_next(pp, cur, "incl"))
    /\ hist' = Step("next", 0)
    /\ UNCHANGED <<input, pp>>

DoCopyName ==
    /\ Positioned
    /\ res' = copy_uncompressed_name(pp.packet, cur.offset)
    /\ hist' = Step("copy_name", cur.offset)
    /\ UNCHANGED <<input, pp, cur>>

\* where the first name of the rdata starts, for the types that hold one
rdata_name_offset(p, it) ==
    IF it.section = "Question" THEN None
    ELSE IF rr_type(p, it) \in {TYPE_NS, TYPE_CNAME, TYPE_PTR, TYPE_SOA}
    THEN it.name_end + DNS_RR_HEADER_SIZE
    ELSE IF rr_type(p, it) = TYPE_MX THEN it.name_end + DNS_RR_HEADER_SIZE + 2
    ELSE None

DoCopyRdataName ==
    /\ Positioned
    /\ rdata_name_offset(pp, cur) # None
    /\ res' = copy_uncompressed_name(pp.packet, rdata_name_offset(pp, cur))
    /\ hist' = Step("copy_rdata_name", rdata_name_offset(pp, cur))
    /\ UNCHANGED <<input, pp, cur>>

\* the second name of a SOA record starts where the first one ends
DoCopyRdataName2 ==
    /\ hist.op = "copy_rdata_name" /\ IsOk(res)
    /\ rr_type(pp, cur) = TYPE_SOA
    /\ res' = copy_uncompressed_name(pp.packet, res.val.final_offset)
    /\ hist' = Step("copy_rdata_name2", res.val.final_offset)
    /\ UNCHANGED <<input, pp, cur>>

ParseNext ==
    \/ DoParse
    \/ DoCheckName
    \/ DoOpen
    \/ DoNext
    \/ DoCopyName
    \/ DoCopyRdataName
    \/ DoCopyRdataName2

SpecParse == ParseInit /\ [][ParseNext]_vars

\* ------------------------------------------------------------ codec runs
\* SpecCodec: a buffer the Validator accepts is uncompressed, compressed
\* (after having been uncompressed) or renamed; the buffer an operation
\* returns is handed to the next one as long as the Validator accepts it.
MaxCodecOps == 2

MaxNameChain == 4

XY == <<1, 120, 1, 121, 0>>

\* names of i labels, each extending the one before by a label: a, b.a, ..
RECURSIVE NameChain(_)
NameChain(i) == IF i = 0 THEN <<0>> ELSE <<1, 96 + i>> \o NameChain(i - 1)

ChainNamesPacket(k) ==
    Response([i \in 1..k |-> RR_A(NameChain(i))], <<>>, <<>>)

AnswerMenu ==
    { <<>>,
      <<RR_A(Ptr(12))>>,
      <<RR_A(<<1, 66>> \o Ptr(14))>>,
      <<RR_A(Ptr(12)), RR_A(XY), RR_A(XY)>>,
      <<RR_MX(Ptr(12))>>,
      <<RR(Ptr(12), TYPE_CNAME, <<1, 99>> \o Ptr(12))>> }

NameServersMenu == { <<>>, <<RR_NS(Ptr(14))>>, <<RR_SOA(Ptr(14))>> }

AdditionalMenu ==
    { <<>>,
      <<RR_OPT(<<>>)>>,
      <<RR_A(Ptr(12)), RR_OPT(EdnsOption)>>,
      <<RR_OPT(<<>>), RR_A(Ptr(12))>> }

CodecInputs ==
    { Response(an, ns, ar) : an \in AnswerMenu, ns \in NameServersMenu, ar \in AdditionalMenu }
        \cup { ChainNamesPacket(k) : k \in 2..MaxNameChain }
        \cup { ChainPacket(k) : k \in {1, 2, DNS_MAX_HOSTNAME_INDIRECTIONS - 1} }
        \cup { LongPacket(61, <<>>),
               Hdr(FLAGS_QUERY, 1, 0, 0, 0) \o Q(QName, TYPE_A),
               Hdr(FLAGS_QUERY, 1, 0, 0, 1) \o Q(XY, TYPE_NS) \o RR_OPT(EdnsOption) }

Rename(target, source, match_suffix) ==
    [target_name |-> target, source_name |-> source, match_suffix |-> match_suffix,
     overflow_checks |-> FALSE]

RenameArgs ==
    { Rename(name, name, TRUE) : name \in {NameChain(1), QName, XY} }
        \cup { Rename(<<1, 122, 0>>, NameChain(1), TRUE), Rename(XY, QName, FALSE) }

\* the ParsedPacket of a buffer the Validator accepts, the bare buffer else
Held(buffer) ==
    LET parsed(r) == IF IsOk(r) THEN r.val ELSE [NoPacket EXCEPT !.packet = buffer]
    IN parsed(parse(buffer))

Accepted == pp.offset_question # None

Live == hist.n < MaxCodecOps /\ res.err \in {"none", "ok"} /\ Accepted

Applied(op, arg) ==
    [op |-> op, pre |-> hist.op, at |-> 0, arg |-> arg, before |-> pp.packet,
     n |-> hist.n + 1, ok |-> hist.ok, section |-> "none"]

CodecInit ==
    /\ input \in CodecInputs
    /\ pp = Held(input)
    /\ cur = NewIterator("none")
    /\ res = NoResult
    /\ hist = Step("init", 0)

\* the buffer an operation returned is held for the next one
Returned(op, arg, r) ==
    /\ res' = Outcome(r)
    /\ pp' = IF IsOk(r) THEN Held(r.val) ELSE pp
    /\ hist' = Applied(op, arg)

DoUncompress ==
    /\ Live
    /\ Returned("uncompress", NoArgs, uncompress(pp.packet))
    /\ UNCHANGED <<input, cur>>

DoCompress ==
    /\ Live
    /\ hist.op = "uncompress"
    /\ Returned("compress", NoArgs, compress(pp.packet))
    /\ UNCHANGED <<input, cur>>

DoRename ==
    /\ Live
    /\ \E n \in RenameArgs, overflow_checks \in BOOLEAN :
          Returned("rename", [n EXCEPT !.overflow_checks = overflow_checks],
                   rename_with_raw_names(pp, [n EXCEPT !.overflow_checks = overflow_checks]))
    /\ UNCHANGED <<input, cur>>

CodecNext ==
    \/ DoUncompress
    \/ DoCompress
    \/ DoRename

SpecCodec == CodecInit /\ [][CodecNext]_vars

\* ------------------------------------------------------------ mutation runs
\* A ParsedPacket produced by the parser, a caller that opens cursors on it,
\* moves them, and mutates the packet through them or directly.
MaxSteps == 3

LongName == Label(15, 110) \o <<0>>

MutationInputs ==
    { Hdr(FLAGS_QUERY, 1, 0, 0, 0) \o Q(QName, TYPE_A),
      Hdr(FLAGS_QUERY, 1, 0, 0, 1) \o Q(XY, TYPE_NS) \o RR_OPT(EdnsOption),
      Response(<<RR_A(Ptr(12))>>, <<>>, <<>>),
      Response(<<RR_A(Ptr(12))>>, <<>>, <<RR_OPT(<<>>)>>),
      Response(<<>>, <<>>, <<RR_OPT(<<>>), RR_A(Ptr(12))>>),
      Response(<<RR_MX(Ptr(12))>>, <<RR_SOA(Ptr(14))>>, <<>>),
      Response(<<RR_A(Ptr(12)), RR_A(XY)>>, <<RR_NS(Ptr(14))>>,
               <<RR_A(Ptr(12)), RR_OPT(EdnsOption)>>) }

Sections == {"Question", "Answer", "NameServers", "Additional"}

\* the record synth::gen builds for a section: a question, or an A record
\* with its name written out
NewRecord(section) == IF section = "Question" THEN Q(XY, TYPE_A) ELSE RR_A(XY)

NameMenu == {<<0>>, XY, LongName, <<64, 0>>}

\* the caller goes on until a call panics; once the buffer is gone it can
\* only ask for it
Alive == hist.n < MaxSteps /\ res.err \notin {"panic", "undefined"} /\ pp.packet # Taken

Took(op, section, at, ok) ==
    [op |-> op, pre |-> hist.op, at |-> at, arg |-> NoArgs, before |-> pp.packet,
     n |-> hist.n + 1, ok |-> hist.ok /\ ok, section |-> section, was |-> hist.ok,
     kind |-> ""]

Init ==
    /\ input \in MutationInputs
    /\ pp = parse(input).val
    /\ cur = NewIterator("none")
    /\ res = NoResult
    /\ hist = Step("parse", 0)

\* a cursor step from it: the cursor it leaves behind; hist.at is the offset
\* the step left (offset_next for a tombstone and for a new cursor)
Moved(op, it, kind, r) ==
    /\ res' = Outcome(r)
    /\ cur' = Landed(r)
    /\ hist' = [Took(op, it.section, IF it.offset # None THEN it.offset ELSE it.offset_next,
                     IsOk(r)) EXCEPT !.kind = kind]

\* a mutation through the cursor: the ParsedPacket and the cursor it leaves
\* behind
Mutated(op, r) ==
    /\ res' = Outcome(r)
    /\ pp' = IF r.err \in {"panic", "undefined"} THEN pp ELSE r.val.p
    /\ cur' = IF r.err \in {"panic", "undefined"} THEN cur ELSE r.val.it
    /\ hist' = Took(op, cur.section, cur.offset, IsOk(r))

\* into_iter_question .. into_iter_additional_including_opt
DoIntoIter ==
    /\ Alive
    /\ \E section \in Sections, kind \in {"next", "incl"} :
          /\ kind = "incl" => section = "Additional"
          /\ Moved("into_iter", NewIterator(section), kind,
                   cursor_next(pp, NewIterator(section), kind))
    /\ UNCHANGED <<input, pp>>

\* next, or next_including_opt on a response cursor
DoCursorNext ==
    /\ Alive
    /\ cur.section # "none"
    /\ \E kind \in {"next", "incl"} :
          /\ kind = "incl" => cur.section # "Question"
          /\ Moved("next", cur, kind, cursor_next(pp, cur, kind))
    /\ UNCHANGED <<input, pp>>

Inserted(section, r) ==
    /\ res' = Outcome(r)
    /\ pp' = IF r.err \in {"panic", "undefined"} THEN pp ELSE r.val
    /\ hist' = Took("insert_rr", section, 0, IsOk(r))

\* insert_rr borrows the ParsedPacket: no cursor outlives it
DoInsertRR ==
    /\ Alive
    /\ \E section \in Sections, overflow_checks \in BOOLEAN :
          Inserted(section, insert_rr(pp, section, NewRecord(section), overflow_checks))
    /\ cur' = NewIterator("none")
    /\ UNCHANGED input

DoSetRawName ==
    /\ Alive
    /\ cur.section # "none"
    /\ \E name \in NameMenu, overflow_checks \in BOOLEAN :
          /\ Mutated("set_raw_name", set_raw_name(pp, cur, name, overflow_checks))!1
          /\ Mutated("set_raw_name", set_raw_name(pp, cur, name, overflow_checks))!2
          /\ Mutated("set_raw_name", set_raw_name(pp, cur, name, overflow_checks))!3
          /\ hist' = [Took("set_raw_name", cur.section, cur.offset,
                           IsOk(set_raw_name(pp, cur, name, overflow_checks)))
                          EXCEPT !.arg = [NoArgs EXCEPT !.target_name = name]]
    /\ UNCHANGED input

DoDelete ==
    /\ Alive
    /\ cur.section # "none"
    /\ \E overflow_checks \in BOOLEAN :
          Mutated("delete", delete(pp, cur, overflow_checks))
    /\ UNCHANGED input

DoIterableUncompress ==
    /\ Alive
    /\ cur.section # "none"
    /\ \E debug_assertions \in BOOLEAN :
          Mutated("uncompress", iterable_uncompress(pp, cur, debug_assertions))
    /\ UNCHANGED input

\* set_rr_ttl and set_rr_ip exist on the cursors of the record sections
DoSetRRTtl ==
    /\ Alive
    /\ cur.section \notin {"none", "Question"}
    /\ Mutated("set_rr_ttl", set_rr_ttl(pp, cur, 300))
    /\ UNCHANGED input

IpMenu == {<<192, 0, 2, 1>>, Fill(15, 0) \o <<1>>}

DoSetRRIp ==
    /\ Alive
    /\ cur.section \notin {"none", "Question"}
    /\ \E ip \in IpMenu : Mutated("set_rr_ip", set_rr_ip(pp, cur, ip))
    /\ UNCHANGED input

\* ParsedPacket::rename_with_raw_names borrows the ParsedPacket
Replaced(n, r) ==
    /\ res' = Outcome(r)
    /\ pp' = IF r.err \in {"panic", "undefined"} THEN pp ELSE r.val
    /\ hist' = [Took("rename_with_raw_names", "none", 0, IsOk(r)) EXCEPT !.arg = n]

PacketRenameArgs == {Rename(XY, QName, FALSE), Rename(QName, QName, TRUE)}

DoRenameWithRawNames ==
    /\ Alive
    /\ \E n \in PacketRenameArgs, overflow_checks \in BOOLEAN, debug_assertions \in BOOLEAN :
          Replaced([n EXCEPT !.overflow_checks = overflow_checks],
                   renamed_in_place(pp,
                       debug_copy_raw_edns_section(pp,
                           rename_with_raw_names(pp,
                               [n EXCEPT !.overflow_checks = overflow_checks]),
                           debug_assertions)))
    /\ cur' = NewIterator("none")
    /\ UNCHANGED input

\* ParsedPacket::recompute is public
DoRecompute ==
    /\ Alive
    /\ res' = Outcome(recompute(pp))
    /\ pp' = IF recompute(pp).err \in {"panic", "undefined"} THEN pp ELSE recompute(pp).val
    /\ cur' = NewIterator("none")
    /\ hist' = Took("recompute", "none", 0, IsOk(recompute(pp)))
    /\ UNCHANGED input

\* ParsedPacket::packet, asked for after a rename
DoPacket ==
    /\ hist.n < MaxSteps
    /\ res.err \notin {"panic", "undefined"}
    /\ hist.op = "rename_with_raw_names"
    /\ res' = Outcome(IF pp.packet = Taken
                      THEN Panic("called Option::unwrap() on a None value") ELSE Ok(0))
    /\ hist' = Took("packet", "none", 0, pp.packet # Taken)
    /\ UNCHANGED <<input, pp, cur>>

\* the header setters cannot fail
Set(op, arg, p) ==
    /\ pp' = p
    /\ res' = Outcome(Ok(0))
    /\ cur' = NewIterator("none")
    /\ hist' = Took(op, "none", arg, TRUE)
    /\ UNCHANGED input

DoSetTid ==
    /\ Alive
    /\ Set("set_tid", 4660, set_tid(pp, 4660))

\* ParsedPacket::flags (ext_flags.unwrap_or(0) in the high 16 bits), rcode
\* and opcode
flags(p) ==
    U32(IF p.ext_flags = None THEN 0 ELSE p.ext_flags,
        BitClear(BitClear(Rd16(p.packet, DNS_FLAGS_OFFSET), 30720), 15))

rcode(p) == BitAnd(Rd(p.packet, DNS_FLAGS_OFFSET + 1), 15)

opcode(p) == BitAnd(Rd(p.packet, DNS_FLAGS_OFFSET), 120) \div 8

FlagsMenu == {U32(0, DNS_FLAG_AD), U32(0, DNS_FLAG_QR),
              U32(DNS_FLAG_DO[1], DNS_FLAG_CD + 30720 + 15)}

DoSetFlags ==
    /\ Alive
    /\ \E f \in FlagsMenu : Set("set_flags", f[2], set_flags(pp, f))

DoSetResponse ==
    /\ Alive
    /\ \E to_response \in BOOLEAN : Set("set_response", 0, set_response(pp, to_response))

DoSetRcode ==
    /\ Alive
    /\ Set("set_rcode", 3, set_rcode(pp, 3))

DoSetOpcode ==
    /\ Alive
    /\ Set("set_opcode", 2, set_opcode(pp, 2))

Next ==
    \/ DoIntoIter
    \/ DoCursorNext
    \/ DoInsertRR
    \/ DoSetRawName
    \/ DoDelete
    \/ DoIterableUncompress
    \/ DoSetRRTtl
    \/ DoSetRRIp
    \/ DoRenameWithRawNames
    \/ DoRecompute
    \/ DoPacket
    \/ DoSetTid
    \/ DoSetFlags
    \/ DoSetResponse
    \/ DoSetRcode
    \/ DoSetOpcode

Spec == Init /\ [][Next]_vars

\* ------------------------------------------------------------ large buffers
\* The same calls on buffers near DNS_MAX_UNCOMPRESSED_SIZE and near the
\* largest length resize_rr lets through: a response of n bytes whose one
\* answer is a TXT record padded to that length (its owner name is a
\* pointer, so decompression adds 3 bytes).
Padded(n) ==
    Response(<<RR(Ptr(12), TYPE_TXT,
                  Fill(n - AfterQuestion - Len(Ptr(12)) - DNS_RR_HEADER_SIZE, 7))>>,
             <<>>, <<>>)

PaddedLens == {8170, 8189, 8192, 8200, 65530}

SizeInputs == {Padded(n) : n \in PaddedLens}

SizeInit ==
    /\ input \in SizeInputs
    /\ pp = parse(input).val
    /\ cur = NewIterator("none")
    /\ res = NoResult
    /\ hist = Step("parse", 0)

SizeNext ==
    \/ DoIntoIter
    \/ DoCursorNext
    \/ DoInsertRR
    \/ DoSetRawName
    \/ DoRecompute

SpecSize == SizeInit /\ [][SizeNext]_vars

\* ------------------------------------------------------------ properties
\* Observers used by the properties below. Hops lists <<position, target>>
\* of the pointers met when a name is followed from offset; Expanded is the
\* length of the name it spells (counting stops once past 255 bytes), None
\* when the name runs out of the buffer or holds a label byte above 63.
HopFuel == 20

HopsStep(packet, offset, fuel, met) ==
    LET b == Rd(packet, offset) IN
    IF b = OOB \/ b = 0 \/ fuel = 0 THEN Ok(met)
    ELSE IF IsPointer(b)
    THEN IF Rd16(packet, offset) = OOB16 THEN Ok(met)
         ELSE Again([offset |-> Rd16(packet, offset) % 16384, fuel |-> fuel - 1,
                     met |-> Append(met, <<offset, Rd16(packet, offset) % 16384>>)])
    ELSE Again([offset |-> offset + b + 1, fuel |-> fuel, met |-> met])

RECURSIVE HopsFrom(_, _, _, _)
HopsFrom(packet, offset, fuel, met) ==
    LET r == HopsStep(packet, offset, fuel, met)
    IN IF ~Looping(r) THEN r.val ELSE HopsFrom(packet, r.val.offset, r.val.fuel, r.val.met)

Hops(packet, offset, fuel) == HopsFrom(packet, offset, fuel, <<>>)

ExpandedStep(packet, offset, fuel, acc) ==
    LET b == Rd(packet, offset) IN
    IF acc > DNS_MAX_HOSTNAME_LEN THEN Ok(acc)
    ELSE IF b = OOB \/ fuel = 0 THEN Ok(None)
    ELSE IF IsPointer(b)
    THEN IF Rd16(packet, offset) = OOB16 THEN Ok(None)
         ELSE Again([offset |-> Rd16(packet, offset) % 16384, fuel |-> fuel - 1, acc |-> acc])
    ELSE IF b > 63 \/ offset + b >= Len(packet) THEN Ok(None)
    ELSE IF b = 0 THEN Ok(acc + 1)
    ELSE Again([offset |-> offset + b + 1, fuel |-> fuel, acc |-> acc + b + 1])

\* A walk takes at most HopFuel steps through a pointer and at most 128
\* steps over a label before its length passes 255: fewer than 2^WalkBits.
WalkBits == 8

\* ExpandedStep repeated from s until it settles, at most 2^k times
RECURSIVE Walk(_, _, _)
Walk(packet, s, k) ==
    IF ~Looping(s) THEN s
    ELSE IF k = 0 THEN ExpandedStep(packet, s.val.offset, s.val.fuel, s.val.acc)
    ELSE Walk(packet, Walk(packet, s, k - 1), k - 1)

Expanded(packet, offset, fuel, acc) ==
    Walk(packet, Again([offset |-> offset, fuel |-> fuel, acc |-> acc]), WalkBits).val

HopsDescend(h) ==
    \A i \in 1..Len(h) : /\ h[i][2] < h[i][1]
                         /\ \A j \in 1..(i - 1) : h[i][2] < h[j][2]

Copying == hist.op \in {"copy_name", "copy_rdata_name", "copy_rdata_name2"}

\* C2: DNSSector::parse returns a result for every buffer: no step of it
\* panics and no read falls outside the buffer.
C2_ParseTotal ==
    hist.op = "parse" => res.err # "panic"

C2_Witness ==
    /\ hist.op = "parse"
    /\ res.err = "PacketTooSmall"
    /\ Len(input) > DNS_HEADER_SIZE
    /\ ancount(input) = 2

\* C3: a name that check_compressed_name accepts, and any name of a packet
\* that parse accepted, is followed through at most 16 pointers, each
\* targeting an offset strictly below its own position and below every
\* earlier target; the assertion of copy_uncompressed_name holds for it.
C3_PointersDescend ==
    /\ hist.op = "check_name" /\ IsOk(res) =>
          /\ HopsDescend(Hops(input, hist.at, HopFuel))
          /\ Len(Hops(input, hist.at, HopFuel)) <= DNS_MAX_HOSTNAME_INDIRECTIONS
          /\ IsOk(copy_uncompressed_name(input, hist.at))
    /\ Copying =>
          /\ res.err # "panic"
          /\ HopsDescend(Hops(pp.packet, hist.at, HopFuel))
          /\ Len(Hops(pp.packet, hist.at, HopFuel)) <= DNS_MAX_HOSTNAME_INDIRECTIONS

C3_Witness ==
    /\ hist.op = "copy_name"
    /\ IsOk(res)
    /\ Len(Hops(pp.packet, hist.at, HopFuel)) = DNS_MAX_HOSTNAME_INDIRECTIONS

\* the first answer's owner name spells more than 255 bytes although the
\* header and the question are in order
LongOwner(packet) ==
    /\ Len(packet) >= DNS_HEADER_SIZE
    /\ qdcount(packet) = 1
    /\ ancount(packet) > 0
    /\ is_response(packet)
    /\ LET asked(q) ==
               /\ IsOk(q)
               /\ Expanded(packet, q.val.offset, HopFuel, 0) > DNS_MAX_HOSTNAME_LEN
           positioned(s0) == IsOk(s0) /\ asked(parse_question(packet, s0.val))
       IN positioned(set_offset(packet, NewSector, DNS_QUESTION_OFFSET))

C7_RenamedAccepted ==
    hist.op = "rename" /\ IsOk(res) => Accepts(pp.packet)

Same(after, before) == IsOk(after) /\ after = before

\* C8: renaming a name to itself with match_suffix set yields a packet whose
\* decompression equals, byte for byte, the decompression of the packet
\* that was renamed.
C8_RenameIdentity ==
    /\ hist.op = "rename"
    /\ IsOk(res)
    /\ hist.arg.target_name = hist.arg.source_name
    /\ hist.arg.match_suffix
    => Same(uncompress(pp.packet), uncompress(hist.before))

\* C9: Compress::compress succeeds on an uncompressed accepted packet, and
\* uncompressing what it returns gives the uncompressed packet back.
C9_CompressRoundTrip ==
    hist.op = "compress" /\ hist.pre = "uncompress" =>
        /\ IsOk(res)
        /\ uncompress(pp.packet) = Ok(hist.before)

\* C10: Compress::uncompress succeeds on every packet the Validator accepts,
\* the Validator accepts its output, and uncompressing the output again
\* leaves it unchanged.
C10_UncompressIdempotent ==
    hist.op = "uncompress" =>
        /\ IsOk(res)
        /\ Accepts(pp.packet)
        /\ uncompress(pp.packet) = Ok(pp.packet)

C10_Witness ==
    /\ hist.op = "uncompress"
    /\ IsOk(res)
    /\ Len(pp.packet) > Len(hist.before)
    /\ ancount(pp.packet) = 1 /\ nscount(pp.packet) = 1 /\ arcount(pp.packet) = 2
    /\ rr_type(pp, [name_end |-> pp.offset_nameservers + Len(NameChain(1))]) = TYPE_SOA

\* The layout of a buffer read by its header counts alone, without the
\* cached offsets: NameEnd is the offset after the name written at offset
\* (a pointer ends it), RecordEnd the offset after the question or record
\* written there, None when it does not fit in the buffer.
RECURSIVE NameEnd(_, _)
NameEnd(packet, offset) ==
    LET b == Rd(packet, offset) IN
    IF b = OOB THEN None
    ELSE IF IsPointer(b) THEN IF offset + 2 <= Len(packet) THEN offset + 2 ELSE None
    ELSE IF b = 0 THEN offset + 1
    ELSE IF b > 63 THEN None
    ELSE NameEnd(packet, offset + b + 1)

RecordEndAfter(packet, name_end, question) ==
    IF name_end = None THEN None
    ELSE IF question
    THEN IF name_end + DNS_RR_QUESTION_HEADER_SIZE <= Len(packet)
         THEN name_end + DNS_RR_QUESTION_HEADER_SIZE ELSE None
    ELSE IF name_end + DNS_RR_HEADER_SIZE > Len(packet) THEN None
    ELSE IF name_end + DNS_RR_HEADER_SIZE + Rd16(packet, name_end + DNS_RR_RDLEN_OFFSET)
               > Len(packet) THEN None
    ELSE name_end + DNS_RR_HEADER_SIZE + Rd16(packet, name_end + DNS_RR_RDLEN_OFFSET)

RecordEnd(packet, offset, question) ==
    RecordEndAfter(packet, NameEnd(packet, offset), question)

\* the offset reached after questions questions and then records records
\* laid end to end from offset
RECURSIVE LaidOut(_, _, _, _)
LaidOut(packet, offset, questions, records) ==
    IF offset = None THEN None
    ELSE IF questions > 0
    THEN LaidOut(packet, RecordEnd(packet, offset, TRUE), questions - 1, records)
    ELSE IF records > 0
    THEN LaidOut(packet, RecordEnd(packet, offset, FALSE), 0, records - 1)
    ELSE offset

\* the header counts describe the buffer: that many questions and records
\* are present, and nothing else
CountsFill(packet) ==
    /\ Len(packet) >= DNS_HEADER_SIZE
    /\ LaidOut(packet, DNS_QUESTION_OFFSET, qdcount(packet),
               ancount(packet) + nscount(packet) + arcount(packet)) = Len(packet)

\* the records of the Additional section include an OPT record
RECURSIVE HasOptFrom(_, _, _)
HasOptFrom(packet, offset, records) ==
    IF offset = None \/ records = 0 \/ NameEnd(packet, offset) = None THEN FALSE
    ELSE \/ Rd16(packet, NameEnd(packet, offset) + DNS_RR_TYPE_OFFSET) = TYPE_OPT
         \/ HasOptFrom(packet, RecordEnd(packet, offset, FALSE), records - 1)

HasOpt(packet) ==
    HasOptFrom(packet,
               LaidOut(packet, DNS_QUESTION_OFFSET, qdcount(packet),
                       ancount(packet) + nscount(packet)),
               arcount(packet))

SectionCount(packet, section) ==
    CASE section = "Question" -> qdcount(packet)
      [] section = "Answer" -> ancount(packet)
      [] section = "NameServers" -> nscount(packet)
      [] OTHER -> arcount(packet)

MutationOps ==
    {"insert_rr", "delete", "set_raw_name", "set_tid", "set_flags", "set_response",
     "set_rcode", "set_opcode"}

\* C1: after any sequence of successful mutations applied to a ParsedPacket
\* the Validator produced (insert_rr into any section, delete and
\* set_raw_name through a cursor of any section, the header setters), the
\* buffer is a message DNSSector::parse accepts.
C1_MutatedAccepted ==
    hist.ok /\ hist.op \in MutationOps => Accepts(pp.packet)

\* C5: after every successful insert_rr or delete(), qdcount, ancount,
\* nscount and arcount equal the number of records present in their
\* sections of the buffer (the count of the section acted on moved by one
\* from the buffer before, and the counted questions and records fill the
\* buffer exactly), and qdcount is at most 1.
C5_CountsMatchRecords ==
    hist.ok /\ hist.op \in {"insert_rr", "delete"} =>
        /\ qdcount(pp.packet) <= 1
        /\ CountsFill(pp.packet)
        /\ \A section \in Sections :
              SectionCount(pp.packet, section) =
                  SectionCount(hist.before, section)
                  + (IF section # hist.section THEN 0
                     ELSE IF hist.op = "insert_rr" THEN 1 ELSE -1)

Present(offsets) == SelectSeq(offsets, LAMBDA o : o # None)

Increasing(offsets) ==
    \A i \in 1..Len(offsets), j \in 1..Len(offsets) : i < j => offsets[i] < offsets[j]

\* C6: in every ParsedPacket reached through parse, insert_rr, delete and
\* set_raw_name, the cached offsets that are present increase in the order
\* Question, Answer, NameServers, Additional, Edns, and each cached offset
\* is absent exactly when its section holds no record (offset_edns: when the
\* buffer holds no OPT record).
C6_SectionOffsets ==
    hist.ok /\ hist.op \in {"parse", "into_iter", "next", "insert_rr", "delete", "set_raw_name"} =>
        /\ Increasing(Present(<<pp.offset_question, pp.offset_answers,
                                pp.offset_nameservers, pp.offset_additional,
                                pp.offset_edns>>))
        /\ pp.offset_question = None <=> qdcount(pp.packet) = 0
        /\ pp.offset_answers = None <=> ancount(pp.packet) = 0
        /\ pp.offset_nameservers = None <=> nscount(pp.packet) = 0
        /\ pp.offset_additional = None <=> arcount(pp.packet) = 0
        /\ pp.offset_edns = None <=> ~HasOpt(pp.packet)

\* The records of a section as the header counts lay them out: Starts is
\* the offsets of n records (questions when question) laid end to end from
\* offset, SectionStart the offset the section begins at.
RECURSIVE Starts(_, _, _, _)
Starts(packet, offset, question, n) ==
    IF offset = None \/ n = 0 \/ RecordEnd(packet, offset, question) = None THEN <<>>
    ELSE <<offset>> \o Starts(packet, RecordEnd(packet, offset, question), question, n - 1)

SectionStart(packet, section) ==
    CASE section = "Question" -> DNS_QUESTION_OFFSET
      [] section = "Answer" -> LaidOut(packet, DNS_QUESTION_OFFSET, qdcount(packet), 0)
      [] section = "NameServers" ->
             LaidOut(packet, DNS_QUESTION_OFFSET, qdcount(packet), ancount(packet))
      [] OTHER -> LaidOut(packet, DNS_QUESTION_OFFSET, qdcount(packet),
                          ancount(packet) + nscount(packet))

SectionStarts(packet, section) ==
    Starts(packet, SectionStart(packet, section), section = "Question",
           SectionCount(packet, section))

IsOptAt(packet, offset) ==
    /\ NameEnd(packet, offset) # None
    /\ Rd16(packet, NameEnd(packet, offset) + DNS_RR_TYPE_OFFSET) = TYPE_OPT

\* the records of section a cursor of that kind yields, in order
Yielded(packet, section, kind) ==
    SelectSeq(SectionStarts(packet, section),
              LAMBDA o : kind = "incl" \/ section = "Question" \/ ~IsOptAt(packet, o))

\* the first of them at or after offset from, None when there is none
FirstFrom(packet, section, kind, from) ==
    LET later == SelectSeq(Yielded(packet, section, kind), LAMBDA o : o >= from)
    IN IF later = <<>> THEN None ELSE later[1]

\* C11: after a successful delete(), next() on the tombstone yields the
\* record now located at the deleted record's former offset (the first one
\* from there that the cursor does not skip), and yields nothing when the
\* deleted record was the last one of its section: no surviving record is
\* visited twice.
C11_TombstoneNext ==
    hist.was /\ hist.pre = "delete" /\ hist.op = "next" =>
        /\ IsOk(res)
        /\ cur.offset = FirstFrom(pp.packet, hist.section, hist.kind, hist.at)

\* a cursor whose record was deleted
IsTombstone(it) == it.section # "none" /\ it.offset = None

\* C12: every mutation attempted on a tombstone cursor (delete,
\* set_raw_name, set_rr_ttl, set_rr_ip) fails with VoidRecord and leaves the
\* buffer, the header counts and the cached offsets unchanged, while next()
\* on the tombstone succeeds. (set_raw_name checks the new name before it
\* looks at the cursor: a malformed name is refused with InvalidName.)
C12_TombstoneMutations ==
    [][IsTombstone(cur) =>
          /\ hist'.op \in {"delete", "set_raw_name", "set_rr_ttl", "set_rr_ip"} =>
                 /\ \/ res'.err = "VoidRecord"
                    \/ hist'.op = "set_raw_name" /\ res'.err = "InvalidName"
                 /\ pp' = pp
          /\ hist'.op = "next" => res'.err = "ok"]_vars

\* C13: on a packet the Validator accepted, every into_iter_* and every
\* next() yields the next record of the section in on-wire order (for
\* next() of an additional cursor: the next one that is not OPT, wherever
\* the OPT record sits; for next_including_opt: the next one), and absent
\* after the last, without reading outside the section.
C13_IterationOrder ==
    [][pp = parse(input).val /\ hist'.op \in {"into_iter", "next"} =>
          /\ res'.err = "ok"
          /\ cur'.offset = FirstFrom(pp.packet, hist'.section, hist'.kind,
                                     IF hist'.op = "into_iter" THEN 0 ELSE cur.offset + 1)]_vars

\* the ParsedPacket as it was before the last operation changed its buffer
Before == [pp EXCEPT !.packet = hist.before]

\* C14: flags() is the wire flag word with the opcode bits (0x7800) and the
\* rcode bits (0x000f) zeroed and ext_flags in the high 16 bits; set_flags(f)
\* leaves opcode() and rcode() as they were and makes the other wire flag
\* bits those of f: afterwards flags() & 0xffff = f & 0x87f0 (hist.at is
\* f & 0xffff).
C14_SetFlags ==
    /\ flags(pp)[1] = (IF pp.ext_flags = None THEN 0 ELSE pp.ext_flags)
    /\ flags(pp)[2] = Rd16(pp.packet, DNS_FLAGS_OFFSET)
                          - BitAnd(Rd16(pp.packet, DNS_FLAGS_OFFSET), 30720 + 15)
    /\ hist.op = "set_flags" =>
          /\ opcode(pp) = opcode(Before)
          /\ rcode(pp) = rcode(Before)
          /\ flags(pp)[2] = BitAnd(hist.at, 34800)

\* C15: after ParsedPacket::rename_with_raw_names returns success the
\* ParsedPacket owns the renamed message as its buffer, maybe_compressed is
\* true, and the cached section offsets are those a Validator run on that
\* buffer yields.
C15_RenamedInPlace ==
    [][hist'.op = "rename_with_raw_names" /\ res'.err = "ok" =>
          /\ Ok(pp'.packet) = rename_with_raw_names(pp, hist'.arg)
          /\ pp'.maybe_compressed
          /\ IsOk(parse(pp'.packet))
          /\ <<pp'.offset_question, pp'.offset_answers, pp'.offset_nameservers,
                pp'.offset_additional, pp'.offset_edns>>
             = <<parse(pp'.packet).val.offset_question, parse(pp'.packet).val.offset_answers,
                 parse(pp'.packet).val.offset_nameservers,
                 parse(pp'.packet).val.offset_additional,
                 parse(pp'.packet).val.offset_edns>>]_vars

\* the name written at offset holds a compression pointer
RECURSIVE NamePointer(_, _)
NamePointer(packet, offset) ==
    LET b == Rd(packet, offset) IN
    IF b = OOB \/ b = 0 \/ (b > 63 /\ ~IsPointer(b)) THEN FALSE
    ELSE IF IsPointer(b) THEN TRUE
    ELSE NamePointer(packet, offset + b + 1)

\* the owner name of the record at offset, or a name in its NS, CNAME, PTR,
\* MX or SOA rdata, holds a compression pointer
RecordPointer(packet, offset, question) ==
    LET rdata == NameEnd(packet, offset) + DNS_RR_HEADER_SIZE
        type == Rd16(packet, NameEnd(packet, offset) + DNS_RR_TYPE_OFFSET)
    IN \/ NamePointer(packet, offset)
       \/ /\ ~question
          /\ \/ type \in {TYPE_NS, TYPE_CNAME, TYPE_PTR} /\ NamePointer(packet, rdata)
             \/ type = TYPE_MX /\ NamePointer(packet, rdata + 2)
             \/ /\ type = TYPE_SOA
                /\ \/ NamePointer(packet, rdata)
                   \/ NameEnd(packet, rdata) # None
                          /\ NamePointer(packet, NameEnd(packet, rdata))

HasPointer(packet) ==
    \E section \in Sections :
        \E i \in 1..Len(SectionStarts(packet, section)) :
            RecordPointer(packet, SectionStarts(packet, section)[i], section = "Question")

\* C16: maybe_compressed is false only when no owner name and no NS, CNAME,
\* PTR, MX or SOA rdata name in the buffer contains a compression pointer,
\* after any sequence of successful public operations (parse, recompute,
\* insert_rr, delete, set_raw_name, rename_with_raw_names).
C16_MaybeCompressed ==
    hist.ok /\ pp.packet # Taken /\ ~pp.maybe_compressed => ~HasPointer(pp.packet)

\* the rank of the record at offset among the records of section, 0 when
\* no record of the section starts there
Rank(packet, section, offset) ==
    LET starts == SectionStarts(packet, section)
    IN IF \E i \in 1..Len(starts) : starts[i] = offset
       THEN CHOOSE i \in 1..Len(starts) : starts[i] = offset
       ELSE 0

\* the cursor it sits on the record of that rank of its section in packet
Designates(packet, it, rank) ==
    /\ rank # 0
    /\ Rank(packet, it.section, it.offset) = rank
    /\ it.name_end = NameEnd(packet, it.offset)
    /\ it.offset_next = RecordEnd(packet, it.offset, it.section = "Question")

\* C17: when set_raw_name, delete or the cursor's uncompress() decompresses
\* the packet, the cursor afterwards designates the record of the same rank
\* in its section, with offset, name_end and offset_next positions of that
\* record in the decompressed buffer (after delete: offset_next is where the
\* deleted record began in the decompressed buffer).
C17_CursorFollows ==
    [][/\ pp.maybe_compressed
       /\ pp = parse(input).val
       /\ Rank(pp.packet, cur.section, cur.offset) # 0
       /\ hist'.op \in {"set_raw_name", "delete", "uncompress"}
       /\ res'.err = "ok"
       => IF hist'.op = "delete"
          THEN cur'.offset_next =
                   SectionStarts(uncompress(pp.packet).val,
                                 cur.section)[Rank(pp.packet, cur.section, cur.offset)]
          ELSE Designates(pp'.packet, cur', Rank(pp.packet, cur.section, cur.offset))]_vars

\* the offset of the OPT record of the buffer, and of its rdata; None when
\* there is none
OptStart(packet) ==
    LET opts == SelectSeq(SectionStarts(packet, "Additional"),
                          LAMBDA o : IsOptAt(packet, o))
    IN IF opts = <<>> THEN None ELSE opts[1]

OptRdata(packet) ==
    IF OptStart(packet) = None THEN None
    ELSE NameEnd(packet, OptStart(packet)) + DNS_RR_HEADER_SIZE

\* C18: after a successful insert_rr, or a successful set_raw_name or
\* delete on a record located before the OPT record, offset_edns designates
\* the first byte of the OPT record's rdata, and iter_edns yields the same
\* options as before the edit.
C18_EdnsOffsetFollows ==
    [][/\ hist'.ok
       /\ pp.offset_edns # None
       /\ pp.offset_edns = OptRdata(pp.packet)
       /\ \/ hist'.op = "insert_rr"
          \/ hist'.op \in {"set_raw_name", "delete"} /\ cur.offset < OptStart(pp.packet)
       => /\ pp'.offset_edns = OptRdata(pp'.packet)
          /\ iter_edns(pp') = iter_edns(pp)]_vars

\* C19: the Validator re-run of recompute() and of rename_with_raw_names
\* finds the edns_count, ext_rcode, edns_version and ext_flags that the
\* ParsedPacket caches, so no call ends in a failed equality assertion on
\* them, also after a cursor has deleted the OPT record.
C19_EdnsAssertions ==
    ~(res.err = "panic" /\ res.detail = "assertion failed: (left == right)")

\* C20: insert_rr fails with PacketTooLarge when the buffer and the record
\* together exceed DNS_MAX_UNCOMPRESSED_SIZE, and no insert_rr or
\* set_raw_name that succeeds leaves a buffer longer than that, whatever
\* the length of the buffer it started from.
C20_PacketTooLarge ==
    [][hist'.op \in {"insert_rr", "set_raw_name"} =>
          /\ res'.err = "ok" => Len(pp'.packet) <= DNS_MAX_UNCOMPRESSED_SIZE
          /\ /\ hist'.op = "insert_rr"
             /\ ~pp.maybe_compressed
             /\ Len(pp.packet) + Len(NewRecord(hist'.section)) > DNS_MAX_UNCOMPRESSED_SIZE
             => res'.err = "PacketTooLarge"]_vars

\* what DNSSector::parse_question returns for the question of packet
QuestionOf(packet) ==
    IF ~IsOk(set_offset(packet, NewSector, DNS_QUESTION_OFFSET))
    THEN set_offset(packet, NewSector, DNS_QUESTION_OFFSET)
    ELSE parse_question(packet, set_offset(packet, NewSector, DNS_QUESTION_OFFSET).val)

Decompressed(p) ==
    IF ~p.maybe_compressed THEN p
    ELSE recompute([p EXCEPT !.packet = uncompress(p.packet).val]).val

\* where the records of section end in packet, by the header counts
SectionEnd(packet, section) ==
    CASE section = "Question" -> SectionStart(packet, "Answer")
      [] section = "Answer" -> SectionStart(packet, "NameServers")
      [] section = "NameServers" -> SectionStart(packet, "Additional")
      [] OTHER -> Len(packet)

\* packet with the header count of section changed by d
Counted(packet, section, d) ==
    Write16(packet, rrcount_offset(section), SectionCount(packet, section) + d)

SectionsAfter(section) ==
    CASE section = "Question" -> {"Answer", "NameServers", "Additional"}
      [] section = "Answer" -> {"NameServers", "Additional"}
      [] section = "NameServers" -> {"Additional"}
      [] OTHER -> {}

CachedOffset(p, section) ==
    CASE section = "Question" -> p.offset_question
      [] section = "Answer" -> p.offset_answers
      [] section = "NameServers" -> p.offset_nameservers
      [] OTHER -> p.offset_additional

\* insert_rr(section, rr) took the ParsedPacket q to p: rr is spliced in
\* right after the last record of section and that section's count is
\* raised by one, nothing else in the buffer is changed; the cached offsets
\* of the later sections are raised by the length of rr and those of the
\* earlier sections are kept
InsertedAfter(q, p, section, rr) ==
    /\ SectionEnd(q.packet, section) # None
    /\ p.packet = Counted(Slice(q.packet, 0, SectionEnd(q.packet, section)) \o rr
                              \o Slice(q.packet, SectionEnd(q.packet, section),
                                       Len(q.packet)),
                          section, 1)
    /\ \A s \in Sections \ {section} :
          CachedOffset(p, s) = IF s \in SectionsAfter(section)
                               THEN Shifted(CachedOffset(q, s), Len(rr))
                               ELSE CachedOffset(q, s)

\* C22: a successful insert_rr(section, rr) leaves the (decompressed)
\* buffer with rr placed immediately after the last record of section,
\* grown by the length of rr, with only that section's count raised by one
\* and every other record as it was; the cached offsets of the later
\* sections are raised by the length of rr.
C22_InsertFrame ==
    [][hist'.op = "insert_rr" /\ res'.err = "ok" =>
          InsertedAfter(Decompressed(pp), pp', hist'.section, NewRecord(hist'.section))]_vars

\* delete() through the cursor it took the ParsedPacket q to p: the bytes
\* [offset, offset_next) were one record of the cursor's section and are
\* gone, that section's count is lowered by one and nothing else in the
\* buffer is changed; the cached offsets of the later sections are lowered
\* by the span, those of the earlier sections are kept, and the section's
\* own is cleared exactly when the section is left empty
DeletedAt(q, it, p) ==
    /\ Designates(q.packet, it, Rank(q.packet, it.section, it.offset))
    /\ p.packet = Counted(Slice(q.packet, 0, it.offset)
                              \o Slice(q.packet, it.offset_next, Len(q.packet)),
                          it.section, -1)
    /\ \A s \in Sections \ {it.section} :
          CachedOffset(p, s) = IF s \in SectionsAfter(it.section)
                               THEN Shifted(CachedOffset(q, s), it.offset - it.offset_next)
                               ELSE CachedOffset(q, s)
    /\ CachedOffset(p, it.section) =
           IF SectionCount(p.packet, it.section) = 0 THEN None
           ELSE CachedOffset(q, it.section)

\* C23: a successful delete() on a cursor of an uncompressed packet removes
\* exactly the bytes [offset, offset_next) of the cursor's record, lowers
\* the cached offsets of the later sections by that span and that
\* section's count by one, clears the section's cached offset exactly when
\* the section became empty, and leaves every other record as it was.
C23_DeleteFrame ==
    [][/\ ~pp.maybe_compressed
       /\ hist'.op = "delete" /\ res'.err = "ok"
       => DeletedAt(pp, cur, pp')]_vars

\* set_raw_name(name) through the cursor it took the ParsedPacket whose
\* decompression is q to p: the record of rank k of the cursor's section
\* has name as its owner name, and every other byte of q is in p, in order
NamedAt(q, it, k, p, name) ==
    /\ k # 0
    /\ k <= Len(SectionStarts(q.packet, it.section))
    /\ p.packet = Slice(q.packet, 0, SectionStarts(q.packet, it.section)[k]) \o name
                      \o Slice(q.packet,
                               NameEnd(q.packet, SectionStarts(q.packet, it.section)[k]),
                               Len(q.packet))

\* C24: a successful set_raw_name(n) on a live cursor makes n the owner
\* name of the cursor's record and leaves the rest of that record and every
\* other record of the (decompressed) buffer as they were, so the buffer
\* length changes by len(n) minus the length of the uncompressed owner
\* name; when n is not a valid uncompressed name the call fails and the
\* ParsedPacket is left as it was (hist.arg.target_name is n).
C24_SetRawName ==
    [][cur.offset # None /\ hist'.op = "set_raw_name" =>
          /\ res'.err = "ok" =>
                 NamedAt(Decompressed(pp), cur, Rank(pp.packet, cur.section, cur.offset),
                         pp', hist'.arg.target_name)
          /\ ~IsOk(check_uncompressed_name(hist'.arg.target_name, 0)) =>
                 /\ res'.err \notin {"ok", "panic", "undefined"}
                 /\ pp' = pp]_vars

\* ------------------------------------------------ SuffixDict on its own
\* A SuffixDict (held in pp) and the calls of SuffixDict::insert on it.
\* hist.n counts the calls, hist.stored those that stored an entry, and
\* hist.at is the slot (0-based) the last stored entry went to, None
\* before the first.
MaxInserts == 70

\* the k-th of a run of names no two of which are equal ignoring case
Fresh(k) == <<2, 97 + (k \div 26), 97 + (k % 26), 0>>

\* the first name in upper case
UpperFirst == <<2, 65, 65, 0>>

\* what insert may be called with when k entries have been stored: a name
\* not seen before, a name equal to the first one up to case, a name too
\* short to be recorded
SuffixMenu(k) == {Fresh(k), UpperFirst, <<0>>}

\* an offset a pointer can hold, and one it cannot
SuffixOffsets(k) == {DNS_HEADER_SIZE + 4 * k, 16384}

\* the slots (1-based) of e that d does not hold the same entry in
Written(d, e) ==
    { i \in 1..Len(e.suffixes) : i > Len(d.suffixes) \/ d.suffixes[i] # e.suffixes[i] }

DictInit ==
    /\ input = <<>>
    /\ pp = NewSuffixDict
    /\ cur = NewIterator("none")
    /\ res = NoResult
    /\ hist = [op |-> "new", n |-> 0, stored |-> 0, at |-> None]

Stored(r) ==
    /\ pp' = r.dict
    /\ res' = Ok(r.ref)
    /\ hist' = [op |-> "insert", n |-> hist.n + 1,
                stored |-> IF Written(pp, r.dict) = {} THEN hist.stored ELSE hist.stored + 1,
                at |-> IF Written(pp, r.dict) = {} THEN hist.at
                       ELSE (CHOOSE i \in Written(pp, r.dict) : TRUE) - 1]

DoDictInsert ==
    /\ hist.n < MaxInserts
    /\ \E suffix \in SuffixMenu(hist.stored), offset \in SuffixOffsets(hist.stored) :
          Stored(dict_insert(pp, suffix, offset))
    /\ UNCHANGED <<input, cur>>

DictNext == DoDictInsert

SpecDict == DictInit /\ [][DictNext]_vars

\* C25: after any sequence of SuffixDict insertions the dictionary holds at
\* most 32 entries and its write index is a slot of the table; the entry
\* the first storing insertion put in slot 0 is never overwritten, and on a
\* full table a new entry goes to the slot after the one written last,
\* slot 1 following slot 31.
C25_SuffixDictEviction ==
    [][/\ pp'.count <= MAX_SUFFIXES
       /\ Len(pp'.suffixes) <= MAX_SUFFIXES
       /\ pp'.index \in 0..(MAX_SUFFIXES - 1)
       /\ pp.count >= 1 => pp'.suffixes[1] = pp.suffixes[1]
       /\ pp.count = MAX_SUFFIXES /\ pp'.suffixes # pp.suffixes =>
              /\ Cardinality(Written(pp, pp')) = 1
              /\ hist'.at \in 1..(MAX_SUFFIXES - 1)
              /\ hist'.at = IF hist.at = MAX_SUFFIXES - 1 THEN 1 ELSE hist.at + 1]_vars

\* the table has been full for a whole round: the 64th stored name is in
\* slot 1, the first is still in slot 0
C25_Witness ==
    /\ hist.op = "insert"
    /\ pp.count = MAX_SUFFIXES
    /\ hist.at = 1
    /\ hist.stored = 2 * MAX_SUFFIXES
    /\ pp.suffixes[2].suffix = Fresh(2 * MAX_SUFFIXES - 1)
    /\ pp.suffixes[1].suffix \in {Fresh(0), UpperFirst}

\* ------------------------------------------------ replace_raw on its own
\* Renamer::replace_raw applied to a name (input) and the arguments in
\* hist.arg; res is what it returned.
BA_UPPER == <<1, 66, 1, 65, 0>>

XBA == <<1, 120>> \o QName

\* 248 bytes of labels
LongLabels == Label(63, 108) \o Label(63, 109) \o Label(63, 110) \o Label(55, 111)

\* a label whose bytes read as the name "a" from its second byte on
Inner == <<2, 1, 97, 0>>

ReplaceNames ==
    {<<>>, <<0>>, <<1, 97, 0>>, QName, BA_UPPER, XBA, Inner, XY, LongLabels \o <<1, 97, 0>>}

ReplaceSources == {<<>>, <<0>>, <<1, 97, 0>>, QName, BA_UPPER, <<1, 65, 0>>}

ReplaceTargets == {<<>>, <<0>>, XY, XBA, <<2, 120, 120>> \o QName}

ReplaceInit ==
    /\ input \in ReplaceNames
    /\ pp = NoPacket
    /\ cur = NewIterator("none")
    /\ res = NoResult
    /\ \E target \in ReplaceTargets, source \in ReplaceSources, match_suffix \in BOOLEAN :
          hist = [Step("init", 0) EXCEPT !.arg = Rename(target, source, match_suffix)]

DoReplaceRaw ==
    /\ hist.op = "init"
    /\ res' = replace_raw(input, hist.arg.target_name, hist.arg.source_name,
                          hist.arg.match_suffix)
    /\ hist' = [hist EXCEPT !.op = "replace_raw", !.n = 1]
    /\ UNCHANGED <<input, pp, cur>>

ReplaceNext == DoReplaceRaw

SpecReplace == ReplaceInit /\ [][ReplaceNext]_vars

\* the offsets of name at which a label starts, from offset i on
RECURSIVE LabelStarts(_, _)
LabelStarts(name, i) ==
    IF i >= Len(name) THEN {}
    ELSE IF name[i + 1] = 0 THEN {i}
    ELSE {i} \cup LabelStarts(name, i + 1 + name[i + 1])

\* the labels of name from offset i on, in lower case, the root left out
RECURSIVE LowerLabels(_, _)
LowerLabels(name, i) ==
    IF i >= Len(name) \/ name[i + 1] = 0 THEN <<>>
    ELSE <<[k \in 1..name[i + 1] |-> to_ascii_lowercase(name[i + 1 + k])]>>
             \o LowerLabels(name, i + 1 + name[i + 1])

\* source is, label by label and ignoring ASCII case, the trailing labels
\* of name from one of its label boundaries on
TrailingLabels(name, source) ==
    /\ Len(source) <= Len(name)
    /\ (Len(name) - Len(source)) \in LabelStarts(name, 0)
    /\ LowerLabels(name, Len(name) - Len(source)) = LowerLabels(source, 0)

\* a name replace_raw refuses: no byte at all, or a leading zero byte
Refused(name) == name = <<>> \/ name[1] = 0

\* what replace_raw returns for a source and a target it does not refuse
Substituted(name, target, source, match_suffix) ==
    IF TrailingLabels(name, source) /\ (match_suffix \/ Len(name) = Len(source))
    THEN IF Len(name) - Len(source) + Len(target) > DNS_MAX_HOSTNAME_LEN
         THEN Err("InvalidName", "")
         ELSE Ok([some |-> TRUE, name |-> Slice(name, 0, Len(name) - Len(source)) \o target])
    ELSE Ok(NoName)

\* C26 as stated: replace_raw fails with InvalidName when source or target
\* is empty; otherwise it returns name[0 .. len(name) - len(source)]
\* followed by target exactly when source is the trailing labels of name
\* (of the same length when match_suffix is false), InvalidName when that
\* name would exceed 255 bytes, and no replacement when there is no match.
C26_ReplaceRaw ==
    hist.op = "replace_raw" =>
        IF Refused(hist.arg.source_name) \/ Refused(hist.arg.target_name)
        THEN res.err = "InvalidName"
        ELSE LET s == Substituted(input, hist.arg.target_name, hist.arg.source_name,
                                  hist.arg.match_suffix)
             IN res.err = s.err /\ (IsOk(s) => res = s)

\* C26 amended: replace_raw returns no replacement when name is shorter
\* than source, or of another length when match_suffix is false, whatever
\* source and target are; otherwise it fails with InvalidName when source
\* or target is empty or starts with a zero byte, and otherwise returns
\* name[0 .. len(name) - len(source)] followed by target exactly when
\* source is the trailing labels of name, InvalidName when that name would
\* exceed 255 bytes, and no replacement when there is no match.
C26_ReplaceRawLengthsFirst ==
    hist.op = "replace_raw" =>
        IF \/ Len(input) < Len(hist.arg.source_name)
           \/ ~hist.arg.match_suffix /\ Len(input) # Len(hist.arg.source_name)
        THEN res = Ok(NoName)
        ELSE IF Refused(hist.arg.source_name) \/ Refused(hist.arg.target_name)
        THEN res.err = "InvalidName"
        ELSE LET s == Substituted(input, hist.arg.target_name, hist.arg.source_name,
                                  hist.arg.match_suffix)
             IN res.err = s.err /\ (IsOk(s) => res = s)

\* the suffix B.A of x.b.a has been replaced by x.y
C26_Witness ==
    /\ hist.op = "replace_raw"
    /\ input = XBA
    /\ hist.arg.source_name = BA_UPPER
    /\ hist.arg.target_name = XY
    /\ hist.arg.match_suffix
    /\ res = Ok([some |-> TRUE, name |-> <<1, 120>> \o XY])

\* ------------------------------------------------ synth::gen names
\* the byte of the dot of a presentation name
DOT == 46

\* the offset of the first dot of name at or after i, Len(name) when none
NextDot(name, i) ==
    LET dots == { j \in i..(Len(name) - 1) : name[j + 1] = DOT }
    IN IF dots = {} THEN Len(name) ELSE CHOOSE j \in dots : \A k \in dots : j <= k

\* the loop of copy_raw_name_from_str from the byte at offset i on, where a
\* label starts (label_len = 0); the bytes of a label up to the next dot
\* are taken in one step: the first of them that finds label_len >= 62 or
\* is above 128 ends the call
RECURSIVE crn_loop(_, _, _, _)
crn_loop(raw_name, name, raw_zone, i) ==
    IF i >= Len(name) THEN Ok(raw_name \o <<0>>)
    ELSE IF name[i + 1] = DOT
    THEN IF Len(name) # 1 THEN Err("InvalidName", "Spurious dot in a label")
         ELSE crn_loop(raw_name, name, raw_zone, i + 1)
    ELSE LET dot == NextDot(name, i)
             bad == { j \in i..(dot - 1) : j - i >= 63 - 1 \/ name[j + 1] > 128 }
             first == CHOOSE j \in bad : \A k \in bad : j <= k
         IN IF bad # {}
            THEN IF first - i >= 63 - 1 THEN Err("InvalidName", "Label too long")
                 ELSE Err("InvalidName", "Non-ASCII character in a label")
            ELSE IF dot < Len(name)
            THEN crn_loop(raw_name \o <<dot - i>> \o Slice(name, i, dot), name, raw_zone,
                          dot + 1)
            ELSE Ok(raw_name \o <<dot - i>> \o Slice(name, i, Len(name))
                        \o (IF raw_zone.some THEN raw_zone.name ELSE <<0>>))

\* synth::gen::copy_raw_name_from_str: the vector raw_name with the raw
\* name appended
copy_raw_name_from_str(raw_name, name, raw_zone) ==
    LET copied(r) ==
            IF ~IsOk(r) THEN r
            ELSE IF Len(r.val) > 253 THEN Err("InvalidName", "Name too long")
            ELSE r
    IN IF Len(name) > 253 THEN Err("InvalidName", "Name too long")
       ELSE copied(crn_loop(raw_name, name, raw_zone, 0))

\* synth::gen::raw_name_from_str
raw_name_from_str(name, raw_zone) == copy_raw_name_from_str(<<>>, name, raw_zone)

\* presentation names: labels of n letters a joined by dots
RECURSIVE Dotted(_)
Dotted(ns) ==
    IF ns = <<>> THEN <<>>
    ELSE IF Len(ns) = 1 THEN Fill(ns[1], 97)
    ELSE Fill(ns[1], 97) \o <<DOT>> \o Dotted(Tail(ns))

PresentationNames ==
    { Dotted(ns) : ns \in {<<>>, <<1>>, <<1, 1>>, <<2, 1, 3>>, <<62>>, <<63>>, <<64>>,
                           <<62, 62, 62, 62>>, <<62, 62, 62, 61, 1>>, <<62, 62, 62, 62, 1>>,
                           <<62, 62, 62, 62, 2>>, <<63, 1>>} }
        \cup { Dotted(ns) \o <<DOT>> : ns \in {<<>>, <<1>>, <<1, 1>>, <<62, 62, 62, 62>>, <<63>>} }
        \cup { <<DOT, 97>>, <<97, DOT, DOT, 98>>, <<DOT, DOT>>, <<97, DOT, DOT>>,
               <<127>>, <<97, 128>>, <<129, 97>>, <<97, DOT, 255>>, <<65, 45, 48>> }

DefaultZones == {NoName} \cup { [some |-> TRUE, name |-> z] : z \in {<<0>>, <<1, 122, 0>>, QName} }

NameInit ==
    /\ input \in PresentationNames
    /\ pp = NoPacket
    /\ cur = NewIterator("none")
    /\ res = NoResult
    /\ \E raw_zone \in DefaultZones :
          hist = [op |-> "init", n |-> 0, raw_zone |-> raw_zone]

DoRawNameFromStr ==
    /\ hist.op = "init"
    /\ res' = raw_name_from_str(input, hist.raw_zone)
    /\ hist' = [hist EXCEPT !.op = "raw_name_from_str", !.n = 1]
    /\ UNCHANGED <<input, pp, cur>>

NameNext == DoRawNameFromStr

SpecName == NameInit /\ [][NameNext]_vars

\* the presentation name without its trailing dot
Relative(name) ==
    IF name # <<>> /\ name[Len(name)] = DOT THEN SubSeq(name, 1, Len(name) - 1) ELSE name

\* the labels of a presentation name, split at its dots, from offset i on
RECURSIVE SplitLabels(_, _)
SplitLabels(name, i) ==
    IF NextDot(name, i) = Len(name) THEN <<Slice(name, i, Len(name))>>
    ELSE <<Slice(name, i, NextDot(name, i))>> \o SplitLabels(name, NextDot(name, i) + 1)

\* the labels of name in wire form, and the raw name the spec describes
RawLabels(name) ==
    IF Relative(name) = <<>> THEN <<>>
    ELSE Concat([k \in 1..Len(SplitLabels(Relative(name), 0)) |->
                     <<Len(SplitLabels(Relative(name), 0)[k])>>
                         \o SplitLabels(Relative(name), 0)[k]])

RawName(name, raw_zone) ==
    RawLabels(name)
        \o (IF Relative(name) # <<>> /\ Relative(name) = name /\ raw_zone.some
            THEN raw_zone.name ELSE <<0>>)

\* every label is 1 to 63 bytes long and made of ASCII bytes
LabelsValid(name) ==
    Relative(name) # <<>> =>
        \A k \in 1..Len(SplitLabels(Relative(name), 0)) :
            /\ Len(SplitLabels(Relative(name), 0)[k]) \in 1..63
            /\ \A j \in 1..Len(SplitLabels(Relative(name), 0)[k]) :
                   SplitLabels(Relative(name), 0)[k][j] < 128

\* C27: raw_name_from_str accepts a presentation name exactly when every
\* label is 1 to 63 bytes long and made of ASCII bytes only and the raw
\* name is at most 255 bytes; what it returns is the labels followed by a
\* zero for a name with a trailing dot, and by the default zone, or a zero
\* when there is none, otherwise.
C27_RawNameFromStr ==
    hist.op = "raw_name_from_str" =>
        /\ IsOk(res) <=> /\ LabelsValid(input)
                         /\ Len(RawName(input, hist.raw_zone)) <= DNS_MAX_HOSTNAME_LEN
        /\ IsOk(res) => res.val = RawName(input, hist.raw_zone)

\* ------------------------------------------------ the question accessors
\* the type and class read after a question name that ends at offset
qtype_qclass_at(packet, offset) ==
    IF offset > Len(packet) THEN Panic("range start index out of range for slice")
    ELSE IF Rd16(packet, offset + DNS_RR_TYPE_OFFSET) = OOB16
              \/ Rd16(packet, offset + DNS_RR_CLASS_OFFSET) = OOB16
    THEN Panic("read_u16: index out of bounds")
    ELSE Ok(<<Rd16(packet, offset + DNS_RR_TYPE_OFFSET),
              Rd16(packet, offset + DNS_RR_CLASS_OFFSET)>>)

\* ParsedPacket::question_raw0: q is the tuple returned (<<>> for None), p
\* the ParsedPacket after the call, which holds the tuple in cached
question_raw0(p) ==
    LET fresh(name) ==
            IF ~IsOk(name) THEN name
            ELSE LET found(tc) ==
                         IF ~IsOk(tc) THEN tc
                         ELSE Ok([p |-> [p EXCEPT !.cached = <<name.val.name>> \o tc.val],
                                  q |-> <<name.val.name>> \o tc.val])
                 IN found(qtype_qclass_at(p.packet, name.val.final_offset))
    IN IF p.cached # <<>> THEN Ok([p |-> p, q |-> p.cached])
       ELSE IF p.offset_question = None THEN Ok([p |-> p, q |-> <<>>])
       ELSE IF p.packet = Taken THEN Panic("called Option::unwrap() on a None value")
       ELSE fresh(copy_uncompressed_name(p.packet, p.offset_question))

\* ParsedPacket::question_raw: the name without its trailing zero
question_raw(p) ==
    LET mapped(r) ==
            IF ~IsOk(r) \/ r.val.q = <<>> THEN r
            ELSE IF Len(r.val.q[1]) = 0 THEN Panic("attempt to subtract with overflow")
            ELSE Ok([p |-> r.val.p,
                     q |-> <<Slice(r.val.q[1], 0, Len(r.val.q[1]) - 1), r.val.q[2], r.val.q[3]>>])
    IN mapped(question_raw0(p))

\* Compress::raw_name_to_str: the labels joined by dots, in lower case
RECURSIVE rnts_loop(_, _, _, _)
rnts_loop(packet, offset, indirections, str) ==
    LET len == Rd(packet, offset) IN
    IF len = OOB THEN Panic("raw_name_to_str: packet[offset]")
    ELSE IF len = 0 THEN Ok([k \in 1..Len(str) |-> to_ascii_lowercase(str[k])])
    ELSE IF IsPointer(len)
    THEN IF Rd16(packet, offset) = OOB16 THEN Panic("raw_name_to_str: read_u16")
         ELSE IF Rd16(packet, offset) % 16384 = offset
                   \/ indirections > DNS_MAX_HOSTNAME_INDIRECTIONS
         THEN Ok(str)
         ELSE rnts_loop(packet, Rd16(packet, offset) % 16384, indirections + 1, str)
    ELSE IF offset + 1 + len > Len(packet) THEN Panic("raw_name_to_str: label slice")
    ELSE rnts_loop(packet, offset + 1 + len, indirections,
                   (IF str = <<>> THEN <<>> ELSE str \o <<46>>)
                       \o Slice(packet, offset + 1, offset + 1 + len))

raw_name_to_str(packet, offset) == rnts_loop(packet, offset, 0, <<>>)

make_ascii_lowercase(str) == [k \in 1..Len(str) |-> to_ascii_lowercase(str[k])]

\* ParsedPacket::question
question(p) ==
    LET named(name_str, len) ==
            IF ~IsOk(name_str) THEN name_str
            ELSE IF len = None THEN Panic("raw_name_len: index out of bounds")
            ELSE LET found(tc) ==
                         IF ~IsOk(tc) THEN tc
                         ELSE Ok([p |-> p,
                                  q |-> <<make_ascii_lowercase(name_str.val)>> \o tc.val])
                 IN found(qtype_qclass_at(p.packet, p.offset_question + len))
        held(name_str) ==
            IF ~IsOk(name_str) THEN name_str
            ELSE Ok([p |-> p,
                     q |-> <<make_ascii_lowercase(name_str.val), p.cached[2], p.cached[3]>>])
    IN IF p.cached # <<>> THEN held(raw_name_to_str(p.cached[1], 0))
       ELSE IF p.offset_question = None THEN Ok([p |-> p, q |-> <<>>])
       ELSE IF p.packet = Taken THEN Panic("called Option::unwrap() on a None value")
       ELSE named(raw_name_to_str(p.packet, p.offset_question),
                  raw_name_len_at(p.packet, p.offset_question))

\* ParsedPacket::qtype_qclass
qtype_qclass(p) ==
    LET found(tc) == IF ~IsOk(tc) THEN tc ELSE Ok([p |-> p, q |-> tc.val])
        sized(len) ==
            IF len = None THEN Panic("raw_name_len: index out of bounds")
            ELSE found(qtype_qclass_at(p.packet, p.offset_question + len))
    IN IF p.cached # <<>> THEN Ok([p |-> p, q |-> <<p.cached[2], p.cached[3]>>])
       ELSE IF p.offset_question = None THEN Ok([p |-> p, q |-> <<>>])
       ELSE IF p.packet = Taken THEN Panic("called Option::unwrap() on a None value")
       ELSE sized(raw_name_len_at(p.packet, p.offset_question))

\* a question whose name is a pointer into the header: offset 4 holds the
\* high byte of qdcount, a zero, so the name is the root
PointerQuestion == Hdr(FLAGS_QUERY, 1, 0, 0, 0) \o Q(Ptr(4), TYPE_NS)

QuestionInputs ==
    { Hdr(FLAGS_QUERY, 1, 0, 0, 0) \o Q(QName, TYPE_A),
      Hdr(FLAGS_QUERY, 1, 0, 0, 0) \o Q(BA_UPPER, TYPE_NS),
      PointerQuestion,
      Response(<<RR_A(Ptr(12))>>, <<>>, <<>>),
      Response(<<RR_A(Ptr(12)), RR_A(XY)>>, <<RR_NS(Ptr(14))>>,
               <<RR_A(Ptr(12)), RR_OPT(EdnsOption)>>) }

QuestionInit ==
    /\ input \in QuestionInputs
    /\ pp = parse(input).val
    /\ cur = NewIterator("none")
    /\ res = NoResult
    /\ hist = Step("parse", 0)

\* an accessor borrows the whole ParsedPacket: no cursor is left; res
\* holds the tuple it returned. The accessors are not counted in hist.n:
\* the caller may ask between any two of its MaxSteps operations, and
\* after the last.
Asked(op, r) ==
    /\ res' = IF IsOk(r) THEN Ok(r.val.q) ELSE r
    /\ pp' = IF IsOk(r) THEN r.val.p ELSE pp
    /\ cur' = NewIterator("none")
    /\ hist' = [Took(op, "none", 0, IsOk(r)) EXCEPT !.n = hist.n]
    /\ UNCHANGED input

\* the caller goes on until a call panics
Asking == res.err \notin {"panic", "undefined"}

DoQuestionRaw0 == Asking /\ Asked("question_raw0", question_raw0(pp))

DoQuestionRaw == Asking /\ Asked("question_raw", question_raw(pp))

DoQuestion == Asking /\ Asked("question", question(pp))

DoQtypeQclass == Asking /\ Asked("qtype_qclass", qtype_qclass(pp))

QuestionNext ==
    \/ DoQuestionRaw0
    \/ DoQuestionRaw
    \/ DoQuestion
    \/ DoQtypeQclass
    \/ DoIntoIter
    \/ DoSetRawName
    \/ DoDelete
    \/ DoInsertRR
    \/ DoRenameWithRawNames

SpecQuestion == QuestionInit /\ [][QuestionNext]_vars

\* the question record in the buffer: <<>> when qdcount is 0, else the
\* uncompressed name at the start of the question section with the type
\* and class that follow it (<<None>> when the buffer holds no such record)
QuestionIn(packet) ==
    LET read(name) ==
            IF ~IsOk(name)
                 \/ Rd16(packet, name.val.final_offset + DNS_RR_CLASS_OFFSET) = OOB16
            THEN <<None>>
            ELSE <<name.val.name, Rd16(packet, name.val.final_offset + DNS_RR_TYPE_OFFSET),
                   Rd16(packet, name.val.final_offset + DNS_RR_CLASS_OFFSET)>>
    IN IF packet = Taken THEN <<None>>
       ELSE IF qdcount(packet) = 0 THEN <<>>
       ELSE read(copy_uncompressed_name(packet, DNS_QUESTION_OFFSET))

RECURSIVE JoinDots(_)
JoinDots(labels) ==
    IF labels = <<>> THEN <<>>
    ELSE IF Len(labels) = 1 THEN labels[1]
    ELSE labels[1] \o <<DOT>> \o JoinDots(Tail(labels))

\* what the accessor op returns for the question q
QuestionView(op, q) ==
    IF Len(q) # 3 THEN q
    ELSE IF op = "question_raw0" THEN q
    ELSE IF op = "question_raw" THEN <<SubSeq(q[1], 1, Len(q[1]) - 1), q[2], q[3]>>
    ELSE IF op = "question" THEN <<JoinDots(LowerLabels(q[1], 0)), q[2], q[3]>>
    ELSE <<q[2], q[3]>>

QuestionAccessors == {"question_raw0", "question_raw", "question", "qtype_qclass"}

\* C28: after any sequence of operations, what question_raw0, question_raw,
\* question and qtype_qclass return describes the question record that is
\* in the buffer at that time (nothing when there is none): a question
\* cached before set_raw_name, delete, insert_rr or rename_with_raw_names
\* changed the question is not returned.
C28_QuestionCurrent ==
    hist.op \in QuestionAccessors /\ IsOk(res) =>
        res.val = QuestionView(hist.op, QuestionIn(pp.packet))

\* C30: on a packet the Validator has just accepted, question() and
\* qtype_qclass() return without panicking, and the type and class they
\* report are those rr_type() and rr_class() give on the question cursor,
\* also when the question name holds a compression pointer.
C30_QuestionTypeClass ==
    hist.pre = "parse" /\ hist.op \in {"question", "qtype_qclass"} =>
        /\ IsOk(res)
        /\ IsOk(cursor_next(pp, NewIterator("Question"), "next"))
        /\ cursor_next(pp, NewIterator("Question"), "next").val.some
        /\ <<res.val[Len(res.val) - 1], res.val[Len(res.val)]>>
               = <<rr_type(pp, cursor_next(pp, NewIterator("Question"), "next").val.it),
                   rr_class(pp, cursor_next(pp, NewIterator("Question"), "next").val.it)>>

\* C29: when insert_rr returns an error, the buffer, the header counts and
\* the cached offsets describe exactly the records that were there before
\* the call: the ParsedPacket is the one before the call, or its
\* decompression, and no byte of the rejected record is in the buffer.
C29_InsertFailureFrame ==
    [][hist'.op = "insert_rr" /\ res'.err \notin {"ok", "panic", "undefined"} =>
          \/ pp' = pp
          \/ pp' = Decompressed(pp)]_vars
====
